---- MODULE Spec2Model ----
(***************************************************************************)
(* A model of the shipOS BCNOFNe coordinator: the operating-mode manager   *)
(* and the other writers of the mode snapshot, the event inbox and its     *)
(* drain by the supervisor, the planner's goal latch, the cost-guard gate  *)
(* of the supervisor loop, and the voice arbiter.                          *)
(*                                                                         *)
(* Each subsystem has its own variables, initial predicate and next-state  *)
(* relation; a specification SpecX runs one subsystem and leaves the       *)
(* variables of the others at their initial values.                        *)
(***************************************************************************)
EXTENDS Integers, Sequences, FiniteSets, TLC

VARIABLES
    \* ---- operating mode (ship_mode.py, line_bot.py, gui_app.py, oled_fan_controller.py)
    now,              \* wall clock (datetime.now()), in abstract ticks
    current_mode,     \* ShipMode.current_mode (memory of the supervisor process)
    override_active,  \* ShipMode.override_active
    override_until,   \* ShipMode.override_until (None or a time)
    last_result,      \* what the last ShipMode.switch / override call returned
    state_file,       \* content of state/ship_mode.json
    mode_history,     \* lines of state/mode_history.jsonl
    line_pc, line_old, line_mode,      \* LINEBot._switch_ship_mode in progress
    gui_pc, gui_seen, gui_old, gui_mode, \* gui_app page / write_ship_mode in progress
    oled_pc, oled_current, oled_state, \* OLEDFanController._force_mode in progress
    reader_saw,       \* what the last reader of the snapshot found in the file
    deadline,         \* history variable: override_until set by the last override()
    \* ---- supervisor, inbox, planner, cost guard (main.py, agent_core.py, billing_guard.py)
    sup_pc,           \* where IntegratedSystem.run is
    running,          \* IntegratedSystem.running
    inbox_file,       \* lines of commands/inbox.jsonl (<<>>: no file)
    next_event,       \* history variable: the number of the next event appended
    sup_lines,        \* process_inbox: the lines read and not yet handled
    handled,          \* history variable: how often each event was acted upon
    current_goal,     \* AutonomousAgent.current_goal
    user_goal_active, \* AutonomousAgent._user_goal_active
    user_text,        \* history variable: the text of the last update_goal(text, "user")
    goal_history,     \* lines of memory/goal_history.jsonl
    last_action,      \* AutonomousAgent.last_action
    iteration_count,  \* AutonomousAgent.iteration_count
    alert,            \* run_iteration_with_monitoring: the level of the last cost check
    today_cost,       \* usage_data["daily_usage"][today]["cost"], in 1/10000 yen
    day,              \* BillingGuard.get_days_since_start()
    \* ---- voice arbiter (audio/audio_manager.py, audio/recorder.py)
    main_pc,          \* where AudioManager.start is
    tts,              \* AudioManager.tts is an engine (FALSE: None)
    audio_state,      \* AudioManager.state
    recording,        \* Recorder._recording (arecord is running)
    speak_queue,      \* AudioManager._speak_queue
    clock,            \* time.time(): the number of readings taken so far
    puts,             \* history variable: the number of puts into the queue
    calls,            \* per thread: the speak() call that has read the time and not put yet
    listener_pc,      \* where the input listener's thread is in a handler
    talk_pc,          \* where the _process_talk thread is ("none": no such thread)
    mono_pc,          \* where _monologue_worker is
    worker_pc,        \* where _speak_worker is
    dequeued,         \* history variable: the requests the worker took, in order
    \* ---- cost confirmations (billing_guard.py, line_bot.py)
    conf_pc,          \* where BillingGuard.request_confirmation is
    conf_id,          \* confirmation_id of the call in progress or last made (0: none yet)
    elapsed,          \* time.time() - start_time, in seconds slept
    conf_files,       \* content of billing/confirmations/<id>.json, per id
    pending_confirmations, \* LINEBot.pending_confirmations of the webhook server
    reply_pc,         \* where handle_message is in _save_confirmation_result
    reply_id, reply_response, \* the id and the response of the reply being saved
    replied,          \* history variable: per id, the reply that arrived before the timeout
    results,          \* history variable: per id, what request_confirmation returned
    \* ---- the cost guard's ledger (billing_guard.py)
    bill_pc,          \* "new" until BillingGuard.__init__ has loaded usage.json
    bill_day,         \* today's date, as days since start_date
    daily_usage,      \* usage_data["daily_usage"][date]["cost"] per date (None: no bucket)
    total_cost,       \* usage_data["total_cost"]
    bill_level,       \* what the last check_threshold() returned ("": not asked since the last change)
    records,          \* the number of record_usage calls made
    \* ---- the supervisor's use of the mode (main.py run)
    tick_mode,        \* the mode the last pass of the loop gated its tasks and its sleep by
    \* ---- the planner's iteration (agent_core.py)
    gpt_response,     \* the reply the last call_gpt received
    returned,         \* what the last run_iteration returned
    executed,         \* the number of commands handed to executor.execute
    memory_writes,    \* the number of memory.write_memory calls
    diary_writes,     \* the number of memory.append_diary calls
    \* ---- the command executor (executor.py)
    executions,       \* the number of execute calls made
    exec_command,     \* the command of the last execute call
    exec_result,      \* what the last execute call returned
    audit_lines,      \* the number of lines of logs/command_audit.jsonl
    spawned,          \* the number of subprocess.run calls
    \* ---- the task scheduler (task_scheduler.py)
    tasks,            \* TaskScheduler.tasks
    sched_time,       \* time.time()
    sched_pc,         \* run_due_tasks: the index of the task examined next (0: not running)
    sched_mode,       \* run_due_tasks: current_mode
    sched_results,    \* run_due_tasks: results
    examined,         \* history variable: the last task examined, as it was, and what was decided
    \* ---- the audio command file (line_bot.py, audio_manager_utf8.py)
    audio_cmd_file,   \* content of /tmp/shipos_audio_cmd.json (Absent, Truncated or a timestamp)
    cmd_pc,           \* where _audio_command is
    cmd_written,      \* the number of commands _audio_command has begun to write
    poll_pc,          \* where _line_cmd_worker is
    poll_cmd,         \* _line_cmd_worker: the timestamp of cmd (0: none)
    last_timestamp,   \* _line_cmd_worker: last_timestamp (0: the empty string)
    dispatched,       \* history variable: per timestamp, the number of _handle_line_cmd calls
    \* ---- the webhook (line_bot.py create_webhook_app)
    posts,            \* the number of POSTs to /webhook answered
    http_status,      \* the status of the last answer (0: none yet)
    web_signature,    \* history variable: the signature of the last POST
    web_kind,         \* history variable: the kind of message of the last POST
    status_writes,    \* the number of writes of /tmp/shipos_line_status.json
    command_history,  \* the number of files in commands/history
    \* ---- monologue engine
    engine_enabled,   \* MonologueEngine.enabled
    engine_muted,     \* MonologueEngine.muted
    engine_due,       \* time.time() >= MonologueEngine._next_time
    wall_hour,        \* datetime.now().hour
    monologue_pc,     \* where the monologue worker is in its loop
    emissions,        \* number of monologue lines handed to speak()
    emitted,          \* the last of them and what held when it was produced
    \* ---- health monitor
    last_results,     \* HealthMonitor.last_results, the statuses in the order of run_all_checks
    overall_answer,   \* what get_overall_status returned since the last run_all_checks
    health_history,   \* number of lines of state/health_history.jsonl
    \* ---- self-repair sweep
    memory_dir,       \* whether the memory directory exists
    index_file,       \* memory/index.json
    topic_files,      \* the files of memory/topics, by topic
    last_actions,     \* the actions the last _check_memory_integrity returned
    sweeps,           \* number of runs of check_and_recover
    \* ---- execution logs on the interactive provider
    log_pc,           \* "new" until the two processes have been started
    log_clock,        \* time.time(), in quarters of an hour
    web_exec_log_enabled,  \* exec_log_enabled of the LINEBot of the webhook server
    web_exec_log_timeout,  \* _exec_log_timeout of the LINEBot of the webhook server
    sup_exec_log_enabled,  \* exec_log_enabled of the LINEBot of the supervisor
    sup_exec_log_timeout,  \* _exec_log_timeout of the LINEBot of the supervisor
    log_iteration,    \* agent.iteration_count
    line_exec_logs,   \* execution logs sent on LINE
    discord_exec_logs,  \* execution logs sent on Discord
    \* ---- notifier
    notify_pc,        \* "new" before the startup notifications, "stopped" after the shutdown ones
    pushes,           \* number of notifications pushed
    last_push,        \* the level of the last one and the mode it was pushed in
    \* ---- the supervisor loop in time (main.py run, handle_shutdown; health_monitor.py)
    run_pc,           \* position of run: new, iterate, scheduler, heartbeat, sleep, head, shutdown or stopped
    run_clock,        \* time.time(), in ticks of ten seconds
    run_mode,         \* self.ship_mode.current_mode while run loops
    run_running,      \* self.running of the timed loop
    run_scheduler,    \* self.scheduler is not None
    run_tasks,        \* self.scheduler.tasks, or the empty sequence without a scheduler
    sleep_left,       \* what is left of time.sleep(wait_sec)
    ai_heartbeat,     \* HealthMonitor.ai_heartbeat
    probe,            \* what the last check_ai_loop run by the scheduler returned
    signal_at,        \* when the first termination signal arrived, None before
    stopped_at        \* when shutdown() ran, None before

modeVars == <<now, current_mode, override_active, override_until, last_result,
              state_file, mode_history, line_pc, line_old, line_mode,
              gui_pc, gui_seen, gui_old, gui_mode, oled_pc, oled_current,
              oled_state, reader_saw, deadline>>

supVars == <<sup_pc, running, inbox_file, next_event, sup_lines, handled,
             current_goal, user_goal_active, user_text, goal_history, last_action,
             iteration_count, alert, today_cost, day>>

audioVars == <<main_pc, tts, audio_state, recording, speak_queue, clock, puts,
               calls, listener_pc, talk_pc, mono_pc, worker_pc, dequeued>>

confVars == <<conf_pc, conf_id, elapsed, conf_files, pending_confirmations,
              reply_pc, reply_id, reply_response, replied, results>>

billVars == <<bill_pc, bill_day, daily_usage, total_cost, bill_level, records>>

tickVars == <<tick_mode>>

agentVars == <<gpt_response, returned, executed, memory_writes, diary_writes>>

execVars == <<executions, exec_command, exec_result, audit_lines, spawned>>

schedVars == <<tasks, sched_time, sched_pc, sched_mode, sched_results, examined>>

lineCmdVars == <<audio_cmd_file, cmd_pc, cmd_written, poll_pc, poll_cmd, last_timestamp, dispatched>>

webVars == <<posts, http_status, web_signature, web_kind, status_writes, command_history>>

monoVars == <<engine_enabled, engine_muted, engine_due, wall_hour, monologue_pc, emissions, emitted>>

healthVars == <<last_results, overall_answer, health_history>>

failVars == <<memory_dir, index_file, topic_files, last_actions, sweeps>>

logVars == <<log_pc, log_clock, web_exec_log_enabled, web_exec_log_timeout, sup_exec_log_enabled, sup_exec_log_timeout, log_iteration, line_exec_logs, discord_exec_logs>>

notifyVars == <<notify_pc, pushes, last_push>>

runVars == <<run_pc, run_clock, run_mode, run_running, run_scheduler, run_tasks, sleep_left, ai_heartbeat, probe, signal_at, stopped_at>>

laterVars == <<agentVars, execVars, schedVars, lineCmdVars, webVars, monoVars, healthVars, failVars, logVars, notifyVars, runVars>>

vars == <<modeVars, supVars, audioVars, confVars, billVars, tickVars, laterVars>>

----------------------------------------------------------------------------
(* Bounds of the model *)

MaxTime == 3
MaxHistory == 2
MaxInFlight == 1
MaxEvents == 2
MaxIterations == 2
MaxDay == 1
MaxRequests == 3
MaxConfirmations == 2
timeout_seconds == 2
MaxRecords == 3
MaxExecutions == 2
MaxSchedTime == 4
MaxCommands == 4
MaxPosts == 2
MaxEmissions == 2
MaxHealthRecords == 1
MaxSweeps == 2
MaxLogTime == 4
MaxLogIterations == 20
MaxPushes == 3
\* how long the timed run of the supervisor loop is followed, in ticks
MaxRunTime == 70
\* time.time() when the scheduler is made: later than any interval after the epoch
StartTime == 2

----------------------------------------------------------------------------
(* Operating mode: ship_mode.py *)

MODES == {"autonomous", "user_first", "maintenance", "power_save", "safe"}
DEFAULT_MODE == "autonomous"
None == -1

\* The modes the operations of this model are called with: three of MODES
\* and one name that is not a mode.
SwitchTargets == {"autonomous", "user_first", "safe", "bogus"}
Sources == {"calendar", "user"}
Durations == {1, 2}
ForcedModes == {"EMERGENCY", "STORM"}

\* A JSON snapshot file: a complete object, an empty (truncated) file, or no file.
Snapshot(mode, override, until) ==
    [json |-> "object", mode |-> mode, override |-> override, override_until |-> until]
EmptyFile == [json |-> "empty", mode |-> "", override |-> FALSE, override_until |-> None]
MissingFile == [json |-> "missing", mode |-> "", override |-> FALSE, override_until |-> None]

\* ShipMode._save_state: the object is written to a sibling .tmp file and
\* renamed over the snapshot, so the snapshot goes from one object to the next.
SaveState(mode, override, until) == Snapshot(mode, override, until)

\* ShipMode._record_history, and the same line written by the chat command
\* and the GUI: {from, to, reason, source, timestamp}, of which the model
\* keeps from and to.
RecordHistory(history, old_mode, new_mode) ==
    Append(history, [from |-> old_mode, to |-> new_mode])

\* The state ShipMode.switch works on and returns; wrote says whether the
\* call replaced the snapshot file.
MgrState == [mode |-> current_mode, override |-> override_active,
             until |-> override_until, file |-> state_file,
             history |-> mode_history, result |-> last_result, wrote |-> FALSE]

\* Whether a calendar-sourced switch is suppressed by the manual override.
OverrideBlocksReversed(s, source, t) ==
    source = "calendar" /\ s.override /\ s.until # None /\ t > s.until
OverrideBlocks(s, source, t) ==
    source = "calendar" /\ s.override /\ s.until # None /\ t < s.until

\* ShipMode.switch(mode, reason, source) at time t, from state s.
switch(s, mode, source, t) ==
    IF mode \notin MODES THEN [s EXCEPT !.result = "unknown_mode"]
    ELSE IF s.mode = mode THEN [s EXCEPT !.result = "same_mode"]
    ELSE IF OverrideBlocks(s, source, t) THEN [s EXCEPT !.result = "override_active"]
    ELSE LET expired == source = "calendar" /\ s.override
             ov == IF expired THEN FALSE ELSE s.override
             un == IF expired THEN None ELSE s.until
         IN [mode |-> mode, override |-> ov, until |-> un,
             file |-> SaveState(mode, ov, un),
             history |-> RecordHistory(s.history, s.mode, mode),
             result |-> "switched", wrote |-> TRUE]

\* (override without its closing _save_state)
override_without_save(s, mode, duration, source, t) ==
    switch([s EXCEPT !.override = TRUE, !.until = t + duration], mode, source, t)

\* ShipMode.override(mode, duration_minutes, source) at time t, from state s.
override(s, mode, duration, source, t) ==
    LET armed == [s EXCEPT !.override = TRUE, !.until = t + duration]
        r == switch(armed, mode, source, t)
    IN [r EXCEPT !.file = SaveState(r.mode, r.override, r.until), !.wrote = TRUE]

SetMgr(r) ==
    /\ current_mode' = r.mode
    /\ override_active' = r.override
    /\ override_until' = r.until
    /\ state_file' = r.file
    /\ mode_history' = r.history
    /\ last_result' = r.result

othersIdle == UNCHANGED <<line_pc, line_old, line_mode, gui_pc, gui_seen, gui_old,
                          gui_mode, oled_pc, oled_current, oled_state, reader_saw>>

\* os.replace puts a new file under the snapshot's name: a process that has
\* the old file open for writing (between its open and its close) then
\* writes to a file that is no longer the snapshot.
Orphan(pc) == IF pc = "dump" THEN "orphan" ELSE pc
Replaced(r) ==
    /\ line_pc' = (IF r.wrote THEN Orphan(line_pc) ELSE line_pc)
    /\ gui_pc' = (IF r.wrote THEN Orphan(gui_pc) ELSE gui_pc)
    /\ oled_pc' = (IF r.wrote THEN Orphan(oled_pc) ELSE oled_pc)
    /\ UNCHANGED <<line_old, line_mode, gui_seen, gui_old, gui_mode, oled_current,
                   oled_state, reader_saw>>

\* A call of ShipMode.switch by the supervisor process.
Switch(mode, source) ==
    /\ Len(mode_history) < MaxHistory
    /\ SetMgr(switch(MgrState, mode, source, now))
    /\ Replaced(switch(MgrState, mode, source, now))
    /\ UNCHANGED <<now, deadline>>

\* A call of ShipMode.override by the supervisor process.
Override(mode, duration, source) ==
    /\ Len(mode_history) < MaxHistory
    /\ SetMgr(override(MgrState, mode, duration, source, now))
    /\ Replaced(override(MgrState, mode, duration, source, now))
    /\ deadline' = now + duration
    /\ UNCHANGED now

\* Time passes.
\* TaskScheduler.check_calendar_mode: the mode the calendar asks for when it
\* disagrees with the manager's current_mode ("": it agrees).
CalendarTarget(is_work, current) ==
    IF is_work /\ current # "autonomous" THEN "autonomous"
    ELSE IF ~is_work /\ current = "autonomous" THEN "user_first"
    ELSE ""

\* The "success" entry of the result ShipMode.switch returns.
Success(result) == result \in {"switched", "same_mode"}

\* check_calendar_mode once its five-minute interval has passed, with the
\* calendar's answer is_work.
CheckCalendarMode(is_work) ==
    IF CalendarTarget(is_work, current_mode) = ""
    THEN UNCHANGED modeVars
    ELSE Switch(CalendarTarget(is_work, current_mode), "calendar")

Tick ==
    /\ now < MaxTime
    /\ now' = now + 1
    /\ UNCHANGED <<current_mode, override_active, override_until, last_result,
                   state_file, mode_history, deadline>>
    /\ othersIdle

----------------------------------------------------------------------------
(* The other writers of the mode snapshot *)

\* LINEBot._read_current_mode / gui_app.read_ship_mode / read_ship_mode of the
\* display: the "mode" of the file's object, "autonomous" when the file is
\* missing or does not parse.
ReadMode(file) == IF file.json = "object" THEN file.mode ELSE "autonomous"

\* The object LINEBot._switch_ship_mode and gui_app.write_ship_mode write.
ManualState(mode) == Snapshot(mode, TRUE, None)

mgrIdle == UNCHANGED <<now, current_mode, override_active, override_until,
                       last_result, deadline>>
lineIdle == UNCHANGED <<line_pc, line_old, line_mode>>
guiIdle == UNCHANGED <<gui_pc, gui_seen, gui_old, gui_mode>>
oledIdle == UNCHANGED <<oled_pc, oled_current, oled_state>>

\* How many of the chat command, the GUI button and the display's forced
\* switch are in the middle of writing the snapshot.
InFlight == (IF line_pc = "idle" THEN 0 ELSE 1) + (IF gui_pc = "idle" THEN 0 ELSE 1)
            + (IF oled_pc = "idle" THEN 0 ELSE 1)

\* Chat command "mode <name>": a name that is no valid mode is answered
\* with an error and nothing is written; otherwise _switch_ship_mode starts
\* by reading the current mode.
LineModeCommand(mode) ==
    /\ line_pc = "idle"
    /\ InFlight < MaxInFlight
    /\ Len(mode_history) < MaxHistory
    /\ IF mode \in MODES
       THEN /\ line_pc' = "open"
            /\ line_old' = ReadMode(state_file)
            /\ line_mode' = mode
       ELSE lineIdle
    /\ UNCHANGED <<state_file, mode_history, reader_saw>>
    /\ mgrIdle /\ guiIdle /\ oledIdle

\* open(SHIP_MODE_FILE, 'w') truncates the snapshot in place.
LineOpen ==
    /\ line_pc = "open"
    /\ state_file' = EmptyFile
    /\ line_pc' = "dump"
    /\ UNCHANGED <<line_old, line_mode, mode_history, reader_saw>>
    /\ mgrIdle /\ guiIdle /\ oledIdle

\* json.dump and the close of the file put the new object in the file that
\* was opened, which is the snapshot unless it has been replaced since.
LineDump ==
    /\ line_pc \in {"dump", "orphan"}
    /\ state_file' = (IF line_pc = "dump" THEN ManualState(line_mode) ELSE state_file)
    /\ line_pc' = "history"
    /\ UNCHANGED <<line_old, line_mode, mode_history, reader_saw>>
    /\ mgrIdle /\ guiIdle /\ oledIdle

\* The history line {from: old_mode, to: mode, source: "line"}.
LineHistory ==
    /\ line_pc = "history"
    /\ mode_history' = RecordHistory(mode_history, line_old, line_mode)
    /\ line_pc' = "idle" /\ line_old' = "" /\ line_mode' = ""
    /\ UNCHANGED <<state_file, reader_saw>>
    /\ mgrIdle /\ guiIdle /\ oledIdle

\* A run of the GUI page: read_ship_mode for the sidebar.
GuiRender ==
    /\ gui_pc = "idle"
    /\ gui_seen' = ReadMode(state_file)
    /\ UNCHANGED <<gui_pc, gui_old, gui_mode, state_file, mode_history, reader_saw>>
    /\ mgrIdle /\ lineIdle /\ oledIdle

\* The mode button: write_ship_mode(new_mode) when new_mode differs from the
\* mode the page shows; write_ship_mode reads the snapshot again.
GuiModeButton(mode) ==
    /\ gui_pc = "idle"
    /\ InFlight < MaxInFlight
    /\ Len(mode_history) < MaxHistory
    /\ mode \in MODES
    /\ mode # gui_seen
    /\ gui_pc' = "open"
    /\ gui_old' = ReadMode(state_file)
    /\ gui_mode' = mode
    /\ UNCHANGED <<gui_seen, state_file, mode_history, reader_saw>>
    /\ mgrIdle /\ lineIdle /\ oledIdle

GuiOpen ==
    /\ gui_pc = "open"
    /\ state_file' = EmptyFile
    /\ gui_pc' = "dump"
    /\ UNCHANGED <<gui_seen, gui_old, gui_mode, mode_history, reader_saw>>
    /\ mgrIdle /\ lineIdle /\ oledIdle

GuiDump ==
    /\ gui_pc \in {"dump", "orphan"}
    /\ state_file' = (IF gui_pc = "dump" THEN ManualState(gui_mode) ELSE state_file)
    /\ gui_pc' = "history"
    /\ UNCHANGED <<gui_seen, gui_old, gui_mode, mode_history, reader_saw>>
    /\ mgrIdle /\ lineIdle /\ oledIdle

\* The history line {from: old, to: mode, source: "gui"}; the page then
\* reruns (st.rerun) and reads the snapshot.
GuiHistory ==
    /\ gui_pc = "history"
    /\ mode_history' = RecordHistory(mode_history, gui_old, gui_mode)
    /\ gui_pc' = "idle" /\ gui_old' = "" /\ gui_mode' = ""
    /\ gui_seen' = ReadMode(state_file)
    /\ UNCHANGED <<state_file, reader_saw>>
    /\ mgrIdle /\ lineIdle /\ oledIdle

\* OLEDFanController.update_ai_state: the display reads the mode.
OledRefresh ==
    /\ oled_pc = "idle"
    /\ oled_current' = ReadMode(state_file)
    /\ UNCHANGED <<oled_pc, oled_state, state_file, mode_history, reader_saw>>
    /\ mgrIdle /\ lineIdle /\ guiIdle

\* OLEDFanController._force_mode(mode, reason), called when the sensors are
\* over their limits and the display is not yet in that mode: it loads the
\* snapshot (and gives up when that fails), sets mode and override in it.
OledForceMode(mode) ==
    /\ oled_pc = "idle"
    /\ InFlight < MaxInFlight
    /\ \/ mode = "EMERGENCY" /\ oled_current # "EMERGENCY"
       \/ mode = "STORM" /\ oled_current \notin {"EMERGENCY", "STORM"}
    /\ oled_current' = mode
    /\ IF state_file.json = "object"
       THEN /\ oled_state' = [state_file EXCEPT !.mode = mode, !.override = TRUE]
            /\ oled_pc' = "open"
       ELSE UNCHANGED <<oled_state, oled_pc>>
    /\ UNCHANGED <<state_file, mode_history, reader_saw>>
    /\ mgrIdle /\ lineIdle /\ guiIdle

OledOpen ==
    /\ oled_pc = "open"
    /\ state_file' = EmptyFile
    /\ oled_pc' = "dump"
    /\ UNCHANGED <<oled_current, oled_state, mode_history, reader_saw>>
    /\ mgrIdle /\ lineIdle /\ guiIdle

OledDump ==
    /\ oled_pc \in {"dump", "orphan"}
    /\ state_file' = (IF oled_pc = "dump" THEN oled_state ELSE state_file)
    /\ oled_pc' = "idle" /\ oled_state' = MissingFile
    /\ UNCHANGED <<oled_current, mode_history, reader_saw>>
    /\ mgrIdle /\ lineIdle /\ guiIdle

\* Any reader of the snapshot (display, GUI, chat "mode" query) opens the
\* file and parses what is in it at that moment.
ReadSnapshot ==
    /\ reader_saw' = state_file.json
    /\ UNCHANGED <<state_file, mode_history>>
    /\ mgrIdle /\ lineIdle /\ guiIdle /\ oledIdle

InitMode ==
    /\ now = 0
    /\ current_mode = DEFAULT_MODE
    /\ override_active = FALSE
    /\ override_until = None
    /\ last_result = "none"
    /\ state_file = MissingFile
    /\ mode_history = <<>>
    /\ line_pc = "idle" /\ line_old = "" /\ line_mode = ""
    /\ gui_pc = "idle" /\ gui_seen = DEFAULT_MODE /\ gui_old = "" /\ gui_mode = ""
    /\ oled_pc = "idle" /\ oled_current = DEFAULT_MODE /\ oled_state = MissingFile
    /\ reader_saw = "missing"
    /\ deadline = None

\* The mode manager alone, with the clock.
OutsideMode == UNCHANGED <<supVars, audioVars, confVars, billVars, tickVars, laterVars>>

NextMode ==
    \/ (\E m \in SwitchTargets, src \in Sources : Switch(m, src)) /\ OutsideMode
    \/ (\E m \in SwitchTargets, d \in Durations, src \in Sources : Override(m, d, src)) /\ OutsideMode
    \/ (Tick) /\ OutsideMode

\* The mode manager and the other processes that write the snapshot.
NextSnapshot ==
    \/ (\E m \in SwitchTargets, src \in Sources : Switch(m, src)) /\ OutsideMode
    \/ (\E m \in SwitchTargets, src \in Sources : Override(m, 1, src)) /\ OutsideMode
    \/ (\E is_work \in BOOLEAN : CheckCalendarMode(is_work)) /\ OutsideMode
    \/ (\E m \in SwitchTargets : LineModeCommand(m)) /\ OutsideMode
    \/ (LineOpen) /\ OutsideMode
    \/ (LineDump) /\ OutsideMode
    \/ (LineHistory) /\ OutsideMode
    \/ (GuiRender) /\ OutsideMode
    \/ (\E m \in SwitchTargets : GuiModeButton(m)) /\ OutsideMode
    \/ (GuiOpen) /\ OutsideMode
    \/ (GuiDump) /\ OutsideMode
    \/ (GuiHistory) /\ OutsideMode
    \/ (OledRefresh) /\ OutsideMode
    \/ (\E m \in ForcedModes : OledForceMode(m)) /\ OutsideMode
    \/ (OledOpen) /\ OutsideMode
    \/ (OledDump) /\ OutsideMode
    \/ (ReadSnapshot) /\ OutsideMode

----------------------------------------------------------------------------
(* Cost guard: billing_guard.py.  Money is counted in 1/10000 yen. *)

NormalWarning == 2000000
NormalStop == 3000000
SpecialWarning == 5000000
SpecialAlert == 9000000
SpecialStop == 10000000
SPECIAL_DAY_CYCLE == 6
\* MODEL_PRICING["gpt-4.1-mini"], per 1000 tokens
PriceInput == 150
PriceOutput == 600
\* The tokens main.py records for one planner iteration.
IterInputTokens == 1500
IterOutputTokens == 500

\* BillingGuard.is_special_day
is_special_day(days) == days = 0 \/ days % SPECIAL_DAY_CYCLE = 0

\* BillingGuard.get_thresholds (alert = None on a normal day: the key is absent)
get_thresholds(days) ==
    IF is_special_day(days)
    THEN [warning |-> SpecialWarning, alert |-> SpecialAlert, stop |-> SpecialStop]
    ELSE [warning |-> NormalWarning, alert |-> None, stop |-> NormalStop]

\* BillingGuard.calculate_cost for gpt-4.1-mini
calculate_cost(input_tokens, output_tokens) ==
    (input_tokens * PriceInput + output_tokens * PriceOutput) \div 1000

\* (a check that answers the lowest level reached, not the highest)
check_threshold_lowest(cost, days) ==
    LET th == get_thresholds(days)
    IN IF cost < th.warning THEN "none"
       ELSE "warning"

\* BillingGuard.check_threshold: the level of the alert, "none" for None.
check_threshold(cost, days) ==
    LET th == get_thresholds(days)
    IN IF cost >= th.stop THEN "stop"
       ELSE IF is_special_day(days) /\ th.alert # None /\ cost >= th.alert THEN "alert"
       ELSE IF cost >= th.warning THEN "warning"
       ELSE "none"

\* Today's cost in usage.json when the supervisor starts.
InitCosts == {0, NormalStop - calculate_cost(IterInputTokens, IterOutputTokens),
              SpecialStop - calculate_cost(IterInputTokens, IterOutputTokens)}

----------------------------------------------------------------------------
(* Planner: agent_core.py *)

InitialGoal == "init"
Texts == {"ta", "tb"}
EventTypes == {"query", "goal"}
NextGoals == {"", "n1"}

\* The completion markers of execute_action: 完了, 達成, 終了, 完成, done, finished.
CompletionMarkers == {"kanryo", "tassei", "shuryo", "kansei", "done", "finished"}

\* What the LLM says, as a sequence of fragments of text.
Says == {<<>>, <<"hikitsuzuki", "torikumimasu">>, <<"kanryo", "shimashita">>,
         <<"un", "done">>, <<"task", "finished">>}

\* any(kw in say_text for kw in [...])
ContainsMarker(say) == \E i \in 1..Len(say) : say[i] \in CompletionMarkers

NoAction == [say |-> <<>>, next_goal |-> "", parsed |-> FALSE]
\* The parsed plans call_gpt can return (of the plan's fields, say and next_goal).
Plans == [say : Says, next_goal : NextGoals, parsed : {TRUE}]

\* The agent's goal state, as update_goal and execute_action change it.
GoalState == [goal |-> current_goal, active |-> user_goal_active,
              history |-> goal_history, last |-> last_action]

\* (an update that replaces the goal without archiving or latching)
update_goal_bare(g, new_goal, source) == [g EXCEPT !.goal = new_goal]

\* AutonomousAgent.update_goal(new_goal, source)
update_goal(g, new_goal, source) ==
    IF source = "user"
    THEN [goal |-> new_goal, active |-> TRUE,
          history |-> Append(g.history, [old_goal |-> g.goal, new_goal |-> new_goal]),
          last |-> NoAction]
    ELSE [g EXCEPT !.goal = new_goal]

\* Whether execute_action adopts the plan's next_goal.
AdoptsAlways(g, action) == action.next_goal # ""
AdoptsWhenFree(g, action) == action.next_goal # "" /\ ~g.active
Adopts(g, action) ==
    /\ action.next_goal # ""
    /\ (g.active => ContainsMarker(action.say))

\* AutonomousAgent.execute_action(action): the goal part (commands, memory
\* and diary writes do not touch the goal).
execute_action(g, action) ==
    IF Adopts(g, action)
    THEN [g EXCEPT !.goal = action.next_goal, !.active = FALSE]
    ELSE g

SetGoal(g) ==
    /\ current_goal' = g.goal
    /\ user_goal_active' = g.active
    /\ goal_history' = g.history
    /\ last_action' = g.last

----------------------------------------------------------------------------
(* Supervisor: main.py *)

\* LINEBot._save_event (webhook) and gui_app.submit_goal append one line.
AppendEvent(type, text) ==
    /\ next_event <= MaxEvents
    /\ inbox_file' = Append(inbox_file, [id |-> next_event, type |-> type, text |-> text])
    /\ next_event' = next_event + 1
    /\ UNCHANGED <<alert, sup_pc, running, sup_lines, handled, current_goal, user_goal_active,
                   user_text, goal_history, last_action, iteration_count, today_cost, day>>

\* A chat message that is no command: classified and saved.
WebhookSaveEvent(type, text) == AppendEvent(type, text)

\* The GUI's goal / question buttons.
GuiSubmitGoal(type, text) == AppendEvent(type, text)

\* IntegratedSystem.__init__: BillingGuard loads usage.json.
SupervisorInit ==
    /\ sup_pc = "new"
    /\ sup_pc' = "head"
    /\ today_cost' \in InitCosts
    /\ day' \in 0..MaxDay
    /\ UNCHANGED <<alert, running, inbox_file, next_event, sup_lines, handled, current_goal,
                   user_goal_active, user_text, goal_history, last_action,
                   iteration_count>>

\* while self.running
LoopHead ==
    /\ sup_pc = "head"
    /\ (running => iteration_count < MaxIterations)
    /\ sup_pc' = (IF running THEN "inbox" ELSE "shutdown")
    /\ UNCHANGED <<alert, running, inbox_file, next_event, sup_lines, handled, current_goal,
                   user_goal_active, user_text, goal_history, last_action,
                   iteration_count, today_cost, day>>

\* process_inbox: f.readlines()
InboxRead ==
    /\ sup_pc = "inbox"
    /\ sup_lines' = inbox_file
    /\ sup_pc' = (IF inbox_file = <<>> THEN "billing" ELSE "handle")
    /\ UNCHANGED <<alert, running, inbox_file, next_event, handled, current_goal,
                   user_goal_active, user_text, goal_history, last_action,
                   iteration_count, today_cost, day>>

\* (a handler that takes every event for a goal)
IsGoalEventAlways(event) == TRUE

\* _handle_event: elif event_type == "goal"
IsGoalEvent(event) == event.type = "goal"

\* _handle_event(event) for the next line read: a query is answered by the
\* quick responder, a goal goes to update_goal(text, source="user").
HandleEvent ==
    /\ sup_pc = "handle"
    /\ sup_lines # <<>>
    /\ LET event == Head(sup_lines)
       IN /\ handled' = [handled EXCEPT ![event.id] = @ + 1]
          /\ IF IsGoalEvent(event)
             THEN /\ SetGoal(update_goal(GoalState, event.text, "user"))
                  /\ user_text' = event.text
             ELSE UNCHANGED <<current_goal, user_goal_active, goal_history,
                              last_action, user_text>>
    /\ sup_lines' = Tail(sup_lines)
    /\ UNCHANGED <<alert, sup_pc, running, inbox_file, next_event, iteration_count,
                   today_cost, day>>

\* process_inbox: os.remove(inbox_file) after the loop over the lines read.
RemoveInbox(file, lines) == <<>>

InboxRemove ==
    /\ sup_pc = "handle"
    /\ sup_lines = <<>>
    /\ inbox_file' = RemoveInbox(inbox_file, sup_lines)
    /\ sup_pc' = "billing"
    /\ UNCHANGED <<alert, running, next_event, sup_lines, handled, current_goal,
                   user_goal_active, user_text, goal_history, last_action,
                   iteration_count, today_cost, day>>

\* run_iteration_with_monitoring after the cost check: on "stop" it sets
\* running to False and returns without running the agent.
AfterCheckNoReturn(level) == "agent"
AfterCheck(level) == IF level = "stop" THEN "tail" ELSE "agent"

BillingCheck ==
    /\ sup_pc = "billing"
    /\ LET level == check_threshold(today_cost, day)
       IN /\ running' = (IF level = "stop" THEN FALSE ELSE running)
          /\ sup_pc' = AfterCheck(level)
          /\ alert' = level
    /\ UNCHANGED <<inbox_file, next_event, sup_lines, handled, current_goal,
                   user_goal_active, user_text, goal_history, last_action,
                   iteration_count, today_cost, day>>

\* agent.run_iteration(): call_gpt returns a plan or None; a plan is
\* executed and, the iteration having succeeded, its usage is recorded.
AgentIteration(action) ==
    /\ sup_pc = "agent"
    /\ iteration_count' = iteration_count + 1
    /\ IF action.parsed
       THEN /\ SetGoal(execute_action([GoalState EXCEPT !.last = action], action))
            /\ today_cost' = today_cost + calculate_cost(IterInputTokens, IterOutputTokens)
       ELSE UNCHANGED <<current_goal, user_goal_active, goal_history, last_action,
                        today_cost>>
    /\ sup_pc' = "tail"
    /\ UNCHANGED <<alert, running, inbox_file, next_event, sup_lines, handled, user_text, day>>

\* The rest of the loop body: display, scheduler, heartbeat, log, sleep.
LoopTail ==
    /\ sup_pc = "tail"
    /\ sup_pc' = "head"
    /\ UNCHANGED <<alert, running, inbox_file, next_event, sup_lines, handled, current_goal,
                   user_goal_active, user_text, goal_history, last_action,
                   iteration_count, today_cost, day>>

\* IntegratedSystem.shutdown
Shutdown ==
    /\ sup_pc = "shutdown"
    /\ sup_pc' = "stopped"
    /\ UNCHANGED <<alert, running, inbox_file, next_event, sup_lines, handled, current_goal,
                   user_goal_active, user_text, goal_history, last_action,
                   iteration_count, today_cost, day>>

\* handle_shutdown: SIGTERM / SIGINT
Signal ==
    /\ sup_pc \notin {"new", "stopped"}
    /\ running
    /\ running' = FALSE
    /\ UNCHANGED <<alert, sup_pc, inbox_file, next_event, sup_lines, handled, current_goal,
                   user_goal_active, user_text, goal_history, last_action,
                   iteration_count, today_cost, day>>

\* Midnight: get_today_cost and record_usage use the new date's bucket.
NewDay ==
    /\ sup_pc \notin {"new", "stopped"}
    /\ day < MaxDay
    /\ day' = day + 1
    /\ today_cost' = 0
    /\ UNCHANGED <<alert, sup_pc, running, inbox_file, next_event, sup_lines, handled,
                   current_goal, user_goal_active, user_text, goal_history,
                   last_action, iteration_count>>

InitSup ==
    /\ sup_pc = "new"
    /\ running = TRUE
    /\ inbox_file = <<>>
    /\ next_event = 1
    /\ sup_lines = <<>>
    /\ handled = [i \in 1..(MaxEvents + 1) |-> 0]
    /\ current_goal = InitialGoal
    /\ user_goal_active = FALSE
    /\ user_text = ""
    /\ goal_history = <<>>
    /\ last_action = NoAction
    /\ iteration_count = 0
    /\ alert = "none"
    /\ today_cost = 0
    /\ day = 0

OutsideSupervisor == UNCHANGED <<modeVars, audioVars, confVars, billVars, tickVars, laterVars>>

NextSupervisor ==
    \/ (\E ty \in EventTypes, tx \in Texts : WebhookSaveEvent(ty, tx)) /\ OutsideSupervisor
    \/ (\E ty \in EventTypes, tx \in Texts : GuiSubmitGoal(ty, tx)) /\ OutsideSupervisor
    \/ (SupervisorInit) /\ OutsideSupervisor
    \/ (LoopHead) /\ OutsideSupervisor
    \/ (InboxRead) /\ OutsideSupervisor
    \/ (HandleEvent) /\ OutsideSupervisor
    \/ (InboxRemove) /\ OutsideSupervisor
    \/ (BillingCheck) /\ OutsideSupervisor
    \/ (\E a \in Plans \cup {NoAction} : AgentIteration(a)) /\ OutsideSupervisor
    \/ (LoopTail) /\ OutsideSupervisor
    \/ (Shutdown) /\ OutsideSupervisor
    \/ (Signal) /\ OutsideSupervisor
    \/ (NewDay) /\ OutsideSupervisor

----------------------------------------------------------------------------
(* Voice arbiter: audio/audio_manager.py, audio/recorder.py *)

\* class Priority
TALK == 1
EMERGENCY == 2
NOTIFICATION == 3
MONOLOGUE == 4

Threads == {"main", "listener", "talk", "monologue"}
NoCall == [prio |-> 0, time |-> 0]

\* speak(): the tuple (priority.value, time.time(), SpeakRequest) is built
\* first, reading the clock ...
Call(thread, priority) ==
    /\ clock < MaxRequests
    /\ clock' = clock + 1
    /\ calls' = [calls EXCEPT ![thread] = [prio |-> priority, time |-> clock + 1]]
    /\ UNCHANGED <<speak_queue, puts>>

\* ... and PriorityQueue.put then inserts it under the queue's mutex.
\* (put and during are history fields: the number of the put and whether
\* the worker was playing at that moment.)
Put(thread) ==
    /\ calls[thread] # NoCall
    /\ speak_queue' = speak_queue \cup
           {[prio |-> calls[thread].prio, time |-> calls[thread].time, put |-> puts + 1,
             during |-> (worker_pc = "playing")]}
    /\ puts' = puts + 1
    /\ calls' = [calls EXCEPT ![thread] = NoCall]
    /\ UNCHANGED clock

noSpeak == UNCHANGED <<speak_queue, clock, puts, calls>>

\* The order of the entries of the PriorityQueue: (priority.value, time.time()).
Less(a, b) == a.prio < b.prio \/ (a.prio = b.prio /\ a.time < b.time)

\* PriorityQueue.get: the least entry.
QueueGet(q) == CHOOSE r \in q : \A o \in q \ {r} : Less(r, o)

\* AudioManager.start: starts the listener, the speak worker and the
\* monologue worker, then speaks the greeting.
AudioStart ==
    /\ main_pc = "new"
    /\ tts' \in BOOLEAN
    /\ Call("main", NOTIFICATION)
    /\ main_pc' = "put"
    /\ UNCHANGED <<audio_state, recording, listener_pc, talk_pc, mono_pc, worker_pc,
                   dequeued>>

MainPut ==
    /\ main_pc = "put"
    /\ Put("main")
    /\ main_pc' = "loop"
    /\ UNCHANGED <<tts, audio_state, recording, listener_pc, talk_pc, mono_pc,
                   worker_pc, dequeued>>

\* _handle_talk_press: the test of the state ...
HandleTalkPress ==
    /\ main_pc # "new"
    /\ listener_pc = "idle"
    /\ listener_pc' = (IF audio_state = "speaking" THEN "idle" ELSE "press")
    /\ noSpeak
    /\ UNCHANGED <<main_pc, tts, audio_state, recording, talk_pc, mono_pc, worker_pc,
                   dequeued>>

\* Recorder.start: a no-op when already recording.
RecorderStart(rec) == TRUE

\* ... then _set_state(LISTENING) and recorder.start().
TalkPressListen ==
    /\ listener_pc = "press"
    /\ audio_state' = "listening"
    /\ recording' = RecorderStart(recording)
    /\ listener_pc' = "idle"
    /\ noSpeak
    /\ UNCHANGED <<main_pc, tts, talk_pc, mono_pc, worker_pc, dequeued>>

StopAlwaysReturnsFile(rec, wav) == TRUE

\* Recorder.stop: the path of the WAV file, or "" when nothing was being
\* recorded or the file holds no more than its 44-byte header.
StopReturnsFile(rec, wav) == rec /\ wav

\* _handle_talk_release with the outcome of Recorder.stop: wav is TRUE when
\* the file holds more than the WAV header.
HandleTalkRelease(wav) ==
    /\ main_pc # "new"
    /\ listener_pc = "idle"
    /\ talk_pc = "none"
    /\ IF audio_state # "listening"
       THEN /\ noSpeak
            /\ UNCHANGED <<audio_state, recording, listener_pc, talk_pc>>
       ELSE /\ recording' = FALSE
            /\ IF StopReturnsFile(recording, wav)
               THEN /\ talk_pc' = "start"
                    /\ noSpeak
                    /\ UNCHANGED <<audio_state, listener_pc>>
               ELSE /\ audio_state' = "idle"
                    /\ Call("listener", TALK)
                    /\ listener_pc' = "put"
                    /\ UNCHANGED talk_pc
    /\ UNCHANGED <<main_pc, tts, mono_pc, worker_pc, dequeued>>

\* _handle_monologue_toggle, _handle_status_read, _handle_logbook
HandleStatusRead ==
    /\ main_pc # "new"
    /\ listener_pc = "idle"
    /\ Call("listener", NOTIFICATION)
    /\ listener_pc' = "put"
    /\ UNCHANGED <<main_pc, tts, audio_state, recording, talk_pc, mono_pc, worker_pc,
                   dequeued>>

\* _handle_emergency_stop
HandleEmergencyStop ==
    /\ main_pc # "new"
    /\ listener_pc = "idle"
    /\ Call("listener", EMERGENCY)
    /\ listener_pc' = "put"
    /\ UNCHANGED <<main_pc, tts, audio_state, recording, talk_pc, mono_pc, worker_pc,
                   dequeued>>

ListenerPut ==
    /\ listener_pc = "put"
    /\ Put("listener")
    /\ listener_pc' = "idle"
    /\ UNCHANGED <<main_pc, tts, audio_state, recording, talk_pc, mono_pc, worker_pc,
                   dequeued>>

\* _process_talk: _set_state(THINKING) ...
ProcessTalkThinking ==
    /\ talk_pc = "start"
    /\ audio_state' = "thinking"
    /\ talk_pc' = "stt"
    /\ noSpeak
    /\ UNCHANGED <<main_pc, tts, recording, listener_pc, mono_pc, worker_pc, dequeued>>

\* ... then speech to text, the reply, and speak(..., Priority.TALK) of the
\* reply or of the failure message ...
ProcessTalkSpeak ==
    /\ talk_pc = "stt"
    /\ Call("talk", TALK)
    /\ talk_pc' = "put"
    /\ UNCHANGED <<main_pc, tts, audio_state, recording, listener_pc, mono_pc,
                   worker_pc, dequeued>>

\* ... or an exception: _set_state(IDLE).
ProcessTalkError ==
    /\ talk_pc = "stt"
    /\ audio_state' = "idle"
    /\ talk_pc' = "none"
    /\ noSpeak
    /\ UNCHANGED <<main_pc, tts, recording, listener_pc, mono_pc, worker_pc, dequeued>>

TalkPut ==
    /\ talk_pc = "put"
    /\ Put("talk")
    /\ talk_pc' = "none"
    /\ UNCHANGED <<main_pc, tts, audio_state, recording, listener_pc, mono_pc,
                   worker_pc, dequeued>>

\* _monologue_worker: speaks a generated line when the state is IDLE.
MonologueCheck ==
    /\ main_pc # "new"
    /\ mono_pc = "idle"
    /\ audio_state = "idle"
    /\ Call("monologue", MONOLOGUE)
    /\ mono_pc' = "put"
    /\ UNCHANGED <<main_pc, tts, audio_state, recording, listener_pc, talk_pc,
                   worker_pc, dequeued>>

MonologuePut ==
    /\ mono_pc = "put"
    /\ Put("monologue")
    /\ mono_pc' = "idle"
    /\ UNCHANGED <<main_pc, tts, audio_state, recording, listener_pc, talk_pc,
                   worker_pc, dequeued>>

\* _speak_worker is one thread: it calls get again only after _do_speak
\* has returned.
WorkerFreeAlways == TRUE
WorkerFree == worker_pc = "idle"

\* _speak_worker: _speak_queue.get
WorkerGet ==
    /\ main_pc # "new"
    /\ WorkerFree
    /\ speak_queue # {}
    /\ speak_queue' = speak_queue \ {QueueGet(speak_queue)}
    /\ dequeued' = Append(dequeued, QueueGet(speak_queue))
    /\ worker_pc' = "got"
    /\ UNCHANGED <<main_pc, tts, audio_state, recording, clock, puts, calls,
                   listener_pc, talk_pc, mono_pc>>

\* _do_speak: returns when there is no engine, else _set_state(SPEAKING)
DoSpeak ==
    /\ worker_pc = "got"
    /\ IF tts
       THEN audio_state' = "speaking" /\ worker_pc' = "synth"
       ELSE worker_pc' = "idle" /\ UNCHANGED audio_state
    /\ noSpeak
    /\ UNCHANGED <<main_pc, tts, recording, listener_pc, talk_pc, mono_pc, dequeued>>

\* tts.synthesize fails: _set_state(IDLE), return
SynthesizeFails ==
    /\ worker_pc = "synth"
    /\ audio_state' = "idle"
    /\ worker_pc' = "idle"
    /\ noSpeak
    /\ UNCHANGED <<main_pc, tts, recording, listener_pc, talk_pc, mono_pc, dequeued>>

\* tts.synthesize succeeds: aplay runs
Play ==
    /\ worker_pc = "synth"
    /\ worker_pc' = "playing"
    /\ noSpeak
    /\ UNCHANGED <<main_pc, tts, audio_state, recording, listener_pc, talk_pc,
                   mono_pc, dequeued>>

\* aplay has ended; finally: _set_state(IDLE)
PlayDone ==
    /\ worker_pc = "playing"
    /\ audio_state' = "idle"
    /\ worker_pc' = "idle"
    /\ noSpeak
    /\ UNCHANGED <<main_pc, tts, recording, listener_pc, talk_pc, mono_pc, dequeued>>

InitAudio ==
    /\ main_pc = "new"
    /\ tts = FALSE
    /\ audio_state = "idle"
    /\ recording = FALSE
    /\ speak_queue = {}
    /\ clock = 0
    /\ puts = 0
    /\ calls = [t \in Threads |-> NoCall]
    /\ listener_pc = "idle"
    /\ talk_pc = "none"
    /\ mono_pc = "idle"
    /\ worker_pc = "idle"
    /\ dequeued = <<>>

OutsideAudio == UNCHANGED <<modeVars, supVars, confVars, billVars, tickVars, laterVars>>

NextAudio ==
    \/ (AudioStart) /\ OutsideAudio
    \/ (MainPut) /\ OutsideAudio
    \/ (HandleTalkPress) /\ OutsideAudio
    \/ (TalkPressListen) /\ OutsideAudio
    \/ (\E wav \in BOOLEAN : HandleTalkRelease(wav)) /\ OutsideAudio
    \/ (HandleStatusRead) /\ OutsideAudio
    \/ (HandleEmergencyStop) /\ OutsideAudio
    \/ (ListenerPut) /\ OutsideAudio
    \/ (ProcessTalkThinking) /\ OutsideAudio
    \/ (ProcessTalkSpeak) /\ OutsideAudio
    \/ (ProcessTalkError) /\ OutsideAudio
    \/ (TalkPut) /\ OutsideAudio
    \/ (MonologueCheck) /\ OutsideAudio
    \/ (MonologuePut) /\ OutsideAudio
    \/ (WorkerGet) /\ OutsideAudio
    \/ (DoSpeak) /\ OutsideAudio
    \/ (SynthesizeFails) /\ OutsideAudio
    \/ (Play) /\ OutsideAudio
    \/ (PlayDone) /\ OutsideAudio

----------------------------------------------------------------------------
(* Cost confirmations: billing_guard.py request_confirmation, line_bot.py *)

ConfirmationIds == 1..MaxConfirmations

\* The responses of a chat reply: "approve" is the text 許可:<id>, "deny" 拒否:<id>.
Responses == {"approve", "deny"}

\* request_confirmation: a new id, and the confirmation file written with
\* status pending.
RequestConfirmation ==
    /\ conf_pc = "idle"
    /\ conf_id < MaxConfirmations
    /\ conf_id' = conf_id + 1
    /\ conf_files' = [conf_files EXCEPT ![conf_id + 1] = "pending"]
    /\ elapsed' = 0
    /\ conf_pc' = "poll"
    /\ UNCHANGED <<pending_confirmations, reply_pc, reply_id, reply_response,
                   replied, results>>

\* LINEBot.request_billing_confirmation(..., confirmation_id) on the webhook
\* server's LINEBot: pushes the question and notes the id as pending.
RequestBillingConfirmation(id) ==
    /\ id <= conf_id
    /\ id \notin pending_confirmations
    /\ pending_confirmations' = pending_confirmations \cup {id}
    /\ UNCHANGED <<conf_pc, conf_id, elapsed, conf_files, reply_pc, reply_id,
                   reply_response, replied, results>>

\* What one pass of the polling loop of request_confirmation returns for the
\* content found in the file ("": nothing, sleep and look again).
PollAnswer(content) ==
    IF content = "approve" THEN "approved"
    ELSE IF content = "deny" THEN "denied"
    ELSE IF content = "empty" THEN "error"
    ELSE ""

\* What request_confirmation returns when the loop ends by the timeout.
TimeoutAnswersApproved == "approved"
TimeoutAnswer == "expired"

\* One pass of the loop while time.time() - start_time < timeout_seconds:
\* json.load of the file (an exception leaves request_confirmation when the
\* file is empty), a return on a response, else time.sleep(1).
Poll ==
    /\ conf_pc = "poll"
    /\ elapsed < timeout_seconds
    /\ IF PollAnswer(conf_files[conf_id]) = ""
       THEN /\ elapsed' = elapsed + 1
            /\ UNCHANGED <<conf_pc, results>>
       ELSE /\ results' = [results EXCEPT ![conf_id] = PollAnswer(conf_files[conf_id])]
            /\ conf_pc' = "idle"
            /\ UNCHANGED elapsed
    /\ UNCHANGED <<conf_id, conf_files, pending_confirmations, reply_pc, reply_id,
                   reply_response, replied>>

\* The loop ends: return False, "... auto-cancelled".
Timeout ==
    /\ conf_pc = "poll"
    /\ elapsed >= timeout_seconds
    /\ results' = [results EXCEPT ![conf_id] = TimeoutAnswer]
    /\ conf_pc' = "idle"
    /\ UNCHANGED <<conf_id, elapsed, conf_files, pending_confirmations, reply_pc,
                   reply_id, reply_response, replied>>

IsPendingAlways(id) == TRUE

\* handle_message: "if confirmation_id in self.pending_confirmations"
IsPending(id) == id \in pending_confirmations

\* handle_message for a text approving or denying id: saved when the id is
\* in pending_confirmations (open(result_file, 'w') truncates the file),
\* answered with "id not found" otherwise.
HandleReply(id, response) ==
    /\ id <= conf_id
    /\ reply_pc = "idle"
    /\ replied[id] = "none"
    /\ replied' = [replied EXCEPT ![id] =
                      IF conf_pc = "poll" /\ conf_id = id /\ elapsed < timeout_seconds
                      THEN response ELSE "late"]
    /\ IF IsPending(id)
       THEN /\ conf_files' = [conf_files EXCEPT ![id] = "empty"]
            /\ reply_pc' = "dump"
            /\ reply_id' = id
            /\ reply_response' = response
       ELSE UNCHANGED <<conf_files, reply_pc, reply_id, reply_response>>
    /\ UNCHANGED <<conf_pc, conf_id, elapsed, pending_confirmations, results>>

\* _save_confirmation_result: json.dump into the opened file.
SaveConfirmationResult ==
    /\ reply_pc = "dump"
    /\ conf_files' = [conf_files EXCEPT ![reply_id] = reply_response]
    /\ reply_pc' = "idle"
    /\ reply_id' = 0
    /\ reply_response' = ""
    /\ UNCHANGED <<conf_pc, conf_id, elapsed, pending_confirmations, replied, results>>

InitConfirm ==
    /\ conf_pc = "idle"
    /\ conf_id = 0
    /\ elapsed = 0
    /\ conf_files = [id \in ConfirmationIds |-> "missing"]
    /\ pending_confirmations = {}
    /\ reply_pc = "idle"
    /\ reply_id = 0
    /\ reply_response = ""
    /\ replied = [id \in ConfirmationIds |-> "none"]
    /\ results = [id \in ConfirmationIds |-> "none"]

OutsideConfirm == UNCHANGED <<modeVars, supVars, audioVars, billVars, tickVars, laterVars>>

NextConfirm ==
    \/ (RequestConfirmation) /\ OutsideConfirm
    \/ (\E id \in ConfirmationIds : RequestBillingConfirmation(id)) /\ OutsideConfirm
    \/ (Poll) /\ OutsideConfirm
    \/ (Timeout) /\ OutsideConfirm
    \/ (\E id \in ConfirmationIds, response \in Responses : HandleReply(id, response)) /\ OutsideConfirm
    \/ (SaveConfirmationResult) /\ OutsideConfirm

----------------------------------------------------------------------------
(* The cost guard's ledger: billing_guard.py *)

Yen(n) == n * 10000

Dates == 0..MaxDay

\* Today's cost in a usage.json found at start, with the total before today.
LoadedCosts == {0, Yen(500), Yen(900), Yen(1000)}
LoadedBefore == {0, Yen(300)}

\* The costs recorded: one yen, a hundred yen, one planner iteration.
RecordedCosts == {Yen(1), Yen(100), calculate_cost(IterInputTokens, IterOutputTokens)}

\* BillingGuard.get_today_cost
get_today_cost(usage, date) == IF usage[date] = None THEN 0 ELSE usage[date]

\* BillingGuard.__init__: _load_usage
BillingLoad ==
    /\ bill_pc = "new"
    /\ bill_pc' = "ready"
    /\ bill_day' \in Dates
    /\ \E c \in LoadedCosts, b \in LoadedBefore :
          /\ daily_usage' = [d \in Dates |-> IF d = bill_day' /\ c > 0 THEN c ELSE None]
          /\ total_cost' = b + c
    /\ UNCHANGED <<bill_level, records>>

\* BillingGuard.record_usage(..., cost)
RecordUsage(cost) ==
    /\ bill_pc = "ready"
    /\ records < MaxRecords
    /\ records' = records + 1
    /\ daily_usage' = [daily_usage EXCEPT ![bill_day] = get_today_cost(daily_usage, bill_day) + cost]
    /\ total_cost' = total_cost + cost
    /\ bill_level' = ""
    /\ UNCHANGED <<bill_pc, bill_day>>

\* BillingGuard.reset_daily_usage
ResetDailyUsage ==
    /\ bill_pc = "ready"
    /\ daily_usage' = [daily_usage EXCEPT ![bill_day] = None]
    /\ bill_level' = ""
    /\ UNCHANGED <<bill_pc, bill_day, total_cost, records>>

\* BillingGuard.check_threshold() (also called by get_summary)
CheckThreshold ==
    /\ bill_pc = "ready"
    /\ bill_level' = check_threshold(get_today_cost(daily_usage, bill_day), bill_day)
    /\ UNCHANGED <<bill_pc, bill_day, daily_usage, total_cost, records>>

\* Midnight: datetime.now() gives the next date.
Midnight ==
    /\ bill_pc = "ready"
    /\ bill_day < MaxDay
    /\ bill_day' = bill_day + 1
    /\ bill_level' = ""
    /\ UNCHANGED <<bill_pc, daily_usage, total_cost, records>>

InitBilling ==
    /\ bill_pc = "new"
    /\ bill_day = 0
    /\ daily_usage = [d \in Dates |-> None]
    /\ total_cost = 0
    /\ bill_level = ""
    /\ records = 0

OutsideBilling == UNCHANGED <<modeVars, supVars, audioVars, confVars, tickVars, laterVars>>

NextBilling ==
    \/ (BillingLoad) /\ OutsideBilling
    \/ (\E cost \in RecordedCosts : RecordUsage(cost)) /\ OutsideBilling
    \/ (ResetDailyUsage) /\ OutsideBilling
    \/ (CheckThreshold) /\ OutsideBilling
    \/ (Midnight) /\ OutsideBilling

----------------------------------------------------------------------------
(* The supervisor's use of the mode: main.py run *)

\* One pass of the loop of run, from the scheduler on: check_calendar_mode,
\* then run_due_tasks(self.ship_mode.current_mode) and the sleep of
\* self.ship_mode.get_config()["iteration_interval"].
SupervisorTick(is_work) ==
    /\ CheckCalendarMode(is_work)
    /\ tick_mode' = current_mode'

InitTick == tick_mode = ""

OutsideTick == UNCHANGED <<supVars, audioVars, confVars, billVars, laterVars>>

NextTick ==
    \/ (\E m \in SwitchTargets, src \in Sources : Switch(m, src)) /\ UNCHANGED tick_mode /\ OutsideTick
    \/ (\E m \in SwitchTargets : LineModeCommand(m)) /\ UNCHANGED tick_mode /\ OutsideTick
    \/ (LineOpen) /\ UNCHANGED tick_mode /\ OutsideTick
    \/ (LineDump) /\ UNCHANGED tick_mode /\ OutsideTick
    \/ (LineHistory) /\ UNCHANGED tick_mode /\ OutsideTick
    \/ (GuiRender) /\ UNCHANGED tick_mode /\ OutsideTick
    \/ (\E m \in SwitchTargets : GuiModeButton(m)) /\ UNCHANGED tick_mode /\ OutsideTick
    \/ (GuiOpen) /\ UNCHANGED tick_mode /\ OutsideTick
    \/ (GuiDump) /\ UNCHANGED tick_mode /\ OutsideTick
    \/ (GuiHistory) /\ UNCHANGED tick_mode /\ OutsideTick
    \/ (\E is_work \in BOOLEAN : SupervisorTick(is_work)) /\ OutsideTick

----------------------------------------------------------------------------
(* The planner's iteration: agent_core.py parse_gpt_response, call_gpt,
   execute_action, run_iteration *)

\* required_keys of parse_gpt_response
required_keys == {"say", "cmd", "memory_write", "diary_append", "next_goal"}

\* What the model's reply can be. A document is what json.loads makes of the
\* text: "text" is not JSON, an "object" holds the keys `keys` (each present
\* key with a non-empty value: one command, one memory file, a diary line, a
\* next goal), an "array" holds the strings `keys`, a "string" holds the
\* substrings `keys`, a "number" holds nothing.
DocumentKinds == {"text", "object", "array", "string", "number"}
ReplySays == {<<"hikitsuzuki", "torikumimasu">>, <<"kanryo", "shimashita">>}
\* The key sets tried: every key, every key but one, none.
KeySets == {required_keys, {}} \cup {required_keys \ {k} : k \in required_keys}
Documents ==
    {d \in [kind : DocumentKinds, keys : KeySets, say : {<<>>} \cup ReplySays] :
        /\ (d.kind \in {"text", "number"} => d.keys = {})
        /\ (d.kind \in {"array", "string"} => d.keys \in {{}, required_keys})
        /\ (d.say # <<>>) = (d.kind = "object" /\ "say" \in d.keys)}

\* How the reply wraps the document: bare, between ```json and ```, between
\* ``` and ```, or after a ```json that is never closed (the reply ends with
\* the last character of the document).
Fences == {"none", "json", "plain", "unclosed"}
Responses_gpt == [fence : Fences, doc : Documents]

Undecodable == [kind |-> "text", keys |-> {}, say |-> <<>>]
NoData == [kind |-> "none", keys |-> {}, say |-> <<>>]

\* parse_gpt_response, the extraction: response[json_start:json_end].strip().
\* With no closing fence find returns -1 and the slice drops the last
\* character: an object, an array or a string loses its closing character.
json_str(response) ==
    IF response.fence = "unclosed" /\ response.doc.kind \in {"object", "array", "string"}
    THEN Undecodable
    ELSE response.doc

\* `key not in data` for every required key: membership in an object's keys,
\* an array's elements, a string's substrings; a number raises TypeError.
HasRequiredKeys(data) ==
    /\ data.kind \in {"object", "array", "string"}
    /\ required_keys \subseteq data.keys

\* (a parser that checks no key)
parse_unvalidated(response) ==
    IF json_str(response).kind = "text" THEN NoData ELSE json_str(response)

\* parse_gpt_response(response): the data, or None (NoData) on a
\* JSONDecodeError, a missing key or any other exception.
parse_gpt_response(response) ==
    IF json_str(response).kind = "text" THEN NoData
    ELSE IF ~HasRequiredKeys(json_str(response)) THEN NoData
    ELSE json_str(response)

\* call_gpt: `if parsed:` then parsed['say'] for the log, which raises on an
\* array or a string (caught: None); else None.
call_gpt(response) ==
    LET parsed == parse_gpt_response(response)
    IN IF parsed.kind = "none" THEN NoData
       ELSE IF parsed.kind = "object" /\ parsed.keys = {} THEN NoData
       ELSE IF parsed.kind = "object" /\ "say" \in parsed.keys THEN parsed
       ELSE NoData

\* action.get(key, default) of execute_action, for the goal part
PlanOf(action) ==
    [say |-> action.say,
     next_goal |-> IF "next_goal" \in action.keys THEN "n1" ELSE "",
     parsed |-> TRUE]

\* action.get("cmd", []), action.get("memory_write", []), action.get("diary_append", "")
Count(action, key) == IF key \in action.keys THEN 1 ELSE 0

\* AutonomousAgent.run_iteration() on the reply `response`.
RunIteration(response) ==
    /\ iteration_count < MaxIterations
    /\ iteration_count' = iteration_count + 1
    /\ gpt_response' = response
    /\ LET action == call_gpt(response)
       IN IF action.kind = "none"
          THEN /\ returned' = FALSE
               /\ UNCHANGED <<current_goal, user_goal_active, goal_history, last_action,
                              executed, memory_writes, diary_writes>>
          ELSE /\ returned' = TRUE
               /\ executed' = executed + Count(action, "cmd")
               /\ memory_writes' = memory_writes + Count(action, "memory_write")
               /\ diary_writes' = diary_writes + Count(action, "diary_append")
               /\ SetGoal(execute_action([GoalState EXCEPT !.last = PlanOf(action)],
                                         PlanOf(action)))
    /\ UNCHANGED <<sup_pc, running, inbox_file, next_event, sup_lines, handled,
                   user_text, alert, today_cost, day>>

\* update_goal(text, source="user") between two iterations.
UserUpdateGoal(text) ==
    /\ Len(goal_history) < MaxEvents
    /\ SetGoal(update_goal(GoalState, text, "user"))
    /\ user_text' = text
    /\ UNCHANGED <<sup_pc, running, inbox_file, next_event, sup_lines, handled,
                   iteration_count, alert, today_cost, day>>
    /\ UNCHANGED agentVars

InitAgent ==
    /\ gpt_response = [fence |-> "none", doc |-> Undecodable]
    /\ returned = FALSE
    /\ executed = 0
    /\ memory_writes = 0
    /\ diary_writes = 0

OutsideAgent == UNCHANGED <<modeVars, audioVars, confVars, billVars, tickVars, execVars, schedVars, lineCmdVars, webVars, monoVars, healthVars, failVars, logVars, notifyVars, runVars>>

NextAgent ==
    \/ (\E response \in Responses_gpt : RunIteration(response)) /\ OutsideAgent
    \/ (\E text \in Texts : UserUpdateGoal(text)) /\ OutsideAgent

----------------------------------------------------------------------------
(* The command executor: executor.py *)

DEFAULT_CWD == <<"home", "pi", "autonomous_ai">>

\* Paths are sequences of components below "/".
ALLOWED_ROOTS ==
    {<<"home", "pi", "autonomous_ai">>,
     <<"home", "pi", "autonomous_ai_BCNOFNe_system">>,
     <<"mnt", "hdd">>}

ALLOWED_COMMANDS ==
    {"ls", "cat", "echo", "pwd", "mkdir", "touch",
     "grep", "find", "wc", "head", "tail", "sort", "uniq",
     "date", "whoami", "hostname", "uname", "df", "du",
     "ps", "top", "free", "uptime", "which", "whereis",
     "git", "python3", "pip3", "node", "npm",
     "systemctl", "journalctl", "cp", "mv", "rm", "chmod", "chown"}

PATH_SENSITIVE ==
    {"cp", "mv", "rm", "chmod", "chown", "touch", "mkdir", "cat", "grep",
     "find", "ls", "head", "tail"}

ALLOWED_SYSTEMCTL_ACTIONS ==
    {"status", "restart", "start", "stop", "is-active", "is-enabled", "daemon-reload"}

\* One argument of the command line after shlex.split. form "option" starts
\* with "-", "url" matches ^[a-zA-Z]+://, "unit" ends in .service and holds no
\* "/"; a "path" is absolute (abs) or relative, with the components `parts`
\* (a single relative component is a bare word such as status or notes).
Arg(form, abs, parts) == [form |-> form, abs |-> abs, parts |-> parts]

Arguments ==
    {Arg("option", FALSE, <<"-rf">>),
     Arg("url", FALSE, <<"https://example.org/x">>),
     Arg("unit", FALSE, <<"ssh.service">>),
     Arg("path", FALSE, <<"status">>),
     Arg("path", FALSE, <<"enable">>),
     Arg("path", FALSE, <<"..">>),
     Arg("path", FALSE, <<"logs", "a.log">>),
     Arg("path", TRUE, <<>>),
     Arg("path", TRUE, <<"etc", "passwd">>),
     Arg("path", TRUE, <<"mnt", "hdd", "data">>),
     Arg("path", TRUE, <<"mnt", "hddx">>),
     Arg("path", TRUE, <<"home", "pi", "autonomous_ai", "..", "etc">>)}

ArgLists ==
    {<<>>} \cup {<<a>> : a \in Arguments}
           \cup {<<a, b>> : a \in {Arg("option", FALSE, <<"-rf">>),
                                   Arg("path", TRUE, <<"mnt", "hdd", "data">>)},
                            b \in Arguments}

Programs == {"cat", "wc", "rm", "python3", "systemctl", "sudo", "nmap"}

\* A command string: whether it matches one of DANGEROUS_PATTERNS, whether it
\* holds one of ; && || | ` $( , and the argv shlex.split makes of it.
Commands ==
    [dangerous : BOOLEAN, operator : BOOLEAN, base : Programs, args : ArgLists]

\* Path.resolve(): "." and ".." are folded, a relative path starts at the
\* working directory (symbolic links are not modelled).
RECURSIVE Fold(_, _)
Fold(done, parts) ==
    IF parts = <<>> THEN done
    ELSE IF Head(parts) = "." THEN Fold(done, Tail(parts))
    ELSE IF Head(parts) = ".."
         THEN Fold(IF done = <<>> THEN <<>> ELSE SubSeq(done, 1, Len(done) - 1), Tail(parts))
    ELSE Fold(Append(done, Head(parts)), Tail(parts))

resolve(a) == Fold(IF a.abs THEN <<>> ELSE DEFAULT_CWD, a.parts)

IsPrefix(root, p) == Len(root) <= Len(p) /\ SubSeq(p, 1, Len(root)) = root

\* _is_under_allowed_roots(p)
is_under_allowed_roots(a) == \E root \in ALLOWED_ROOTS : IsPrefix(root, resolve(a))

\* _extract_pathlike_args: "/" in a or a.startswith(".") or a.startswith("~"),
\* options, URLs and unit names having been skipped.
PathLike(a) ==
    /\ a.form = "path"
    /\ (a.abs \/ Len(a.parts) > 1 \/ a.parts \in {<<"..">>, <<".">>})

extract_pathlike_args(args) == {args[i] : i \in {j \in 1..Len(args) : PathLike(args[j])}}

\* The commands whose path arguments is_safe_command examines.
ChecksPaths(base) == base \in PATH_SENSITIVE

\* rm: a in ["/", "/*", "..", "../", "~", "~/", ".*"]
DangerousRmTarget(a) ==
    a.form = "path" /\ ((a.abs /\ a.parts = <<>>) \/ (~a.abs /\ a.parts = <<"..">>))

\* is_safe_command(command): "" when safe, else the reason of the refusal.
is_safe_command(command) ==
    IF command.dangerous THEN "dangerous_pattern"
    ELSE IF command.operator THEN "shell_operator"
    ELSE IF command.base = "sudo" THEN "sudo"
    ELSE IF command.base \notin ALLOWED_COMMANDS THEN "not_allowed"
    ELSE IF command.base = "systemctl" /\ command.args = <<>> THEN "systemctl_no_action"
    ELSE IF /\ command.base = "systemctl"
            /\ ~(/\ command.args[1].form = "path" /\ ~command.args[1].abs
                 /\ Len(command.args[1].parts) = 1
                 /\ command.args[1].parts[1] \in ALLOWED_SYSTEMCTL_ACTIONS)
         THEN "systemctl_action"
    ELSE IF /\ ChecksPaths(command.base)
            /\ \E a \in extract_pathlike_args(command.args) : ~is_under_allowed_roots(a)
         THEN "outside_allowed_roots"
    ELSE IF /\ command.base = "rm"
            /\ \E i \in 1..Len(command.args) : DangerousRmTarget(command.args[i])
         THEN "dangerous_rm"
    ELSE ""

\* CommandExecutor.execute(command): a refused command is audited and
\* answered with success False; a safe one is run by subprocess.run and audited.
Execute(command) ==
    /\ executions < MaxExecutions
    /\ executions' = executions + 1
    /\ exec_command' = command
    /\ audit_lines' = audit_lines + 1
    /\ IF is_safe_command(command) # ""
       THEN /\ exec_result' = "rejected"
            /\ UNCHANGED spawned
       ELSE /\ exec_result' \in {"success", "failed", "timeout", "error"}
            /\ spawned' = spawned + 1

InitExecutor ==
    /\ executions = 0
    /\ exec_command = [dangerous |-> FALSE, operator |-> FALSE, base |-> "cat", args |-> <<>>]
    /\ exec_result = "none"
    /\ audit_lines = 0
    /\ spawned = 0

OutsideExecutor == UNCHANGED <<modeVars, supVars, audioVars, confVars, billVars, tickVars, agentVars, schedVars, lineCmdVars, webVars, monoVars, healthVars, failVars, logVars, notifyVars, runVars>>

NextExecutor ==
    \/ (\E command \in Commands : Execute(command)) /\ OutsideExecutor

----------------------------------------------------------------------------
(* The task scheduler: task_scheduler.py PeriodicTask, TaskScheduler *)

TaskNames == {"t1", "t2"}
Intervals == {1, 2}
\* run_in_modes: None, or a list of modes
NoModes == [given |-> FALSE, modes |-> {}]
ModeLists == {NoModes, [given |-> TRUE, modes |-> {"autonomous", "maintenance"}]}
SchedulerModes == {"autonomous", "user_first"}
\* what task.func() does when it is called
Outcomes == {"returns", "raises"}

\* PeriodicTask.__init__
PeriodicTask(name, interval_sec, condition, run_in_modes) ==
    [name |-> name, interval_sec |-> interval_sec, condition |-> condition,
     run_in_modes |-> run_in_modes, last_run |-> 0, run_count |-> 0]

\* PeriodicTask.is_due() at the time t
is_due(task, t) == (t - task.last_run) >= task.interval_sec

\* (a task that is due at any time)
should_run_any_time(task, t, mode, condition_value) ==
    /\ ~(task.run_in_modes.given /\ task.run_in_modes.modes # {}
         /\ mode \notin task.run_in_modes.modes)
    /\ ~(task.condition /\ ~condition_value)

\* PeriodicTask.should_run(current_mode) at the time t, condition() returning
\* condition_value if it is called.
should_run(task, t, mode, condition_value) ==
    IF ~is_due(task, t) THEN FALSE
    ELSE IF task.run_in_modes.given /\ task.run_in_modes.modes # {}
            /\ mode \notin task.run_in_modes.modes THEN FALSE
    ELSE IF task.condition /\ ~condition_value THEN FALSE
    ELSE TRUE

\* run_due_tasks, the try branch and the except branch
AfterReturn(task, t) == [task EXCEPT !.last_run = t, !.run_count = @ + 1]
AfterRaise(task, t) == [task EXCEPT !.last_run = t]

\* TaskScheduler.register(name, func, interval_sec, condition, run_in_modes)
Register(interval_sec, condition, run_in_modes) ==
    /\ sched_pc = 0
    /\ Len(tasks) < Cardinality(TaskNames)
    /\ tasks' = Append(tasks, PeriodicTask(IF tasks = <<>> THEN "t1" ELSE "t2",
                                           interval_sec, condition, run_in_modes))
    /\ UNCHANGED <<sched_time, sched_pc, sched_mode, sched_results, examined>>

\* time.time() moves on between two calls of run_due_tasks.
SchedulerClock ==
    /\ sched_pc = 0
    /\ sched_time < MaxSchedTime
    /\ sched_time' = sched_time + 1
    /\ UNCHANGED <<tasks, sched_pc, sched_mode, sched_results, examined>>

\* run_due_tasks(current_mode) is entered: results = [].
RunDueTasks(mode) ==
    /\ sched_pc = 0
    /\ tasks # <<>>
    /\ sched_pc' = 1
    /\ sched_mode' = mode
    /\ sched_results' = <<>>
    /\ UNCHANGED <<tasks, sched_time, examined>>

\* One pass of the loop over self.tasks: should_run, then func() (which takes
\* `took` of time and returns or raises), then the bookkeeping.
RunTask(outcome, condition_value, took) ==
    /\ sched_pc \in 1..Len(tasks)
    /\ sched_time + took <= MaxSchedTime
    /\ LET task == tasks[sched_pc]
           runs == should_run(task, sched_time, sched_mode, condition_value)
       IN /\ examined' = [task |-> task, time |-> sched_time, mode |-> sched_mode,
                          condition_value |-> condition_value, ran |-> runs,
                          outcome |-> IF runs THEN outcome ELSE "none",
                          results |-> Len(sched_results)]
          /\ IF runs
             THEN /\ sched_time' = sched_time + took
                  /\ tasks' = [tasks EXCEPT ![sched_pc] =
                                   IF outcome = "returns" THEN AfterReturn(task, sched_time')
                                   ELSE AfterRaise(task, sched_time')]
                  /\ sched_results' = Append(sched_results,
                                             [name |-> task.name, success |-> (outcome = "returns")])
             ELSE /\ (outcome = "returns" /\ took = 0)
                  /\ UNCHANGED <<sched_time, tasks, sched_results>>
    /\ sched_pc' = sched_pc + 1
    /\ UNCHANGED sched_mode

\* return results
RunDueReturn ==
    /\ sched_pc = Len(tasks) + 1
    /\ sched_pc' = 0
    /\ UNCHANGED <<tasks, sched_time, sched_mode, sched_results, examined>>

NotExamined ==
    [task |-> PeriodicTask("", 1, FALSE, NoModes), time |-> 0, mode |-> "",
     condition_value |-> FALSE, ran |-> FALSE, outcome |-> "none", results |-> 0]

InitScheduler ==
    /\ tasks = <<>>
    /\ sched_time = StartTime
    /\ sched_pc = 0
    /\ sched_mode = ""
    /\ sched_results = <<>>
    /\ examined = NotExamined

OutsideScheduler == UNCHANGED <<modeVars, supVars, audioVars, confVars, billVars, tickVars, agentVars, execVars, lineCmdVars, webVars, monoVars, healthVars, failVars, logVars, notifyVars, runVars>>

NextScheduler ==
    \/ (\E i \in Intervals, c \in BOOLEAN, m \in ModeLists : Register(i, c, m)) /\ OutsideScheduler
    \/ (SchedulerClock) /\ OutsideScheduler
    \/ (\E mode \in SchedulerModes : RunDueTasks(mode)) /\ OutsideScheduler
    \/ (\E o \in Outcomes, c \in BOOLEAN, took \in {0, 1} : RunTask(o, c, took)) /\ OutsideScheduler
    \/ (RunDueReturn) /\ OutsideScheduler

----------------------------------------------------------------------------
(* The audio command file: line_bot.py _audio_command (the webhook server)
   and audio_manager_utf8.py _line_cmd_worker (the arbiter's poller) *)

\* The commands are told apart by their timestamp field, 1..MaxCommands.
\* The file /tmp/shipos_audio_cmd.json is absent (Absent), opened for
\* writing with nothing dumped yet (Truncated), or holds the command of a
\* timestamp.
CommandStamps == 1..MaxCommands
Absent == 0
Truncated == -1

\* _audio_command: open(AUDIO_CMD_FILE, 'w') truncates or creates the file.
AudioCommandOpen ==
    /\ cmd_pc = "idle"
    /\ cmd_written < MaxCommands
    /\ cmd_written' = cmd_written + 1
    /\ audio_cmd_file' = Truncated
    /\ cmd_pc' = "dump"
    /\ UNCHANGED <<poll_pc, poll_cmd, last_timestamp, dispatched>>

\* _audio_command: json.dump(cmd, f) and the close. A file the poller has
\* removed since the open is written without a name.
AudioCommandDump ==
    /\ cmd_pc = "dump"
    /\ audio_cmd_file' = (IF audio_cmd_file = Absent THEN Absent ELSE cmd_written)
    /\ cmd_pc' = "idle"
    /\ UNCHANGED <<cmd_written, poll_pc, poll_cmd, last_timestamp, dispatched>>

\* _line_cmd_worker: os.path.exists, open, json.load, the timestamp test.
\* An empty file raises in json.load, which is logged.
LineCmdRead ==
    /\ poll_pc = "sleep"
    /\ audio_cmd_file # Absent
    /\ IF audio_cmd_file # Truncated /\ audio_cmd_file # last_timestamp
       THEN /\ last_timestamp' = audio_cmd_file
            /\ poll_cmd' = audio_cmd_file
            /\ poll_pc' = "handle"
       ELSE UNCHANGED <<last_timestamp, poll_cmd, poll_pc>>
    /\ UNCHANGED <<audio_cmd_file, cmd_pc, cmd_written, dispatched>>

\* _line_cmd_worker: self._handle_line_cmd(cmd)
LineCmdHandle ==
    /\ poll_pc = "handle"
    /\ dispatched' = [dispatched EXCEPT ![poll_cmd] = @ + 1]
    /\ poll_pc' = "remove"
    /\ UNCHANGED <<audio_cmd_file, cmd_pc, cmd_written, poll_cmd, last_timestamp>>

\* _line_cmd_worker: os.remove(self.AUDIO_CMD_FILE), errors ignored.
LineCmdRemove ==
    /\ poll_pc = "remove"
    /\ audio_cmd_file' = Absent
    /\ poll_pc' = "sleep"
    /\ poll_cmd' = 0
    /\ UNCHANGED <<cmd_pc, cmd_written, last_timestamp, dispatched>>

InitLineCmd ==
    /\ audio_cmd_file = Absent
    /\ cmd_pc = "idle"
    /\ cmd_written = 0
    /\ poll_pc = "sleep"
    /\ poll_cmd = 0
    /\ last_timestamp = 0
    /\ dispatched = [c \in 1..(MaxCommands + 1) |-> 0]

OutsideLineCmd == UNCHANGED <<modeVars, supVars, audioVars, confVars, billVars, tickVars, agentVars, execVars, schedVars, webVars, monoVars, healthVars, failVars, logVars, notifyVars, runVars>>

NextLineCmd ==
    \/ (AudioCommandOpen) /\ OutsideLineCmd
    \/ (AudioCommandDump) /\ OutsideLineCmd
    \/ (LineCmdRead) /\ OutsideLineCmd
    \/ (LineCmdHandle) /\ OutsideLineCmd
    \/ (LineCmdRemove) /\ OutsideLineCmd

----------------------------------------------------------------------------
(* The webhook: line_bot.py create_webhook_app (webhook, handle_message) *)

\* The X-Line-Signature of a POST: it verifies, or it does not.
Signatures == {"valid", "invalid"}

\* (a handler that lets every signature pass)
VerifiedAlways(signature) == TRUE

\* handler.handle(body, signature): InvalidSignatureError unless it verifies.
Verified(signature) == signature = "valid"

\* The message of a POST: its kind and, by kind, the confirmation id and the
\* response, the mode named, or the text and the type _classify_input gives it.
Message(kind, id, response, mode, type, text) ==
    [kind |-> kind, id |-> id, response |-> response, mode |-> mode,
     type |-> type, text |-> text]

Messages ==
    {Message("reply", id, r, "", "", "") : id \in ConfirmationIds, r \in Responses}
    \cup {Message("mode", 0, "", m, "", "") : m \in SwitchTargets}
    \cup {Message("audio", 0, "", "", "", ""), Message("status", 0, "", "", "", "")}
    \cup {Message("other", 0, "", "", ty, tx) : ty \in EventTypes, tx \in Texts}

\* handle_message(event), after _write_line_status("RX"): a reply to a cost
\* confirmation, a mode command, an audio command, one of the commands that
\* only answer (status, health, logbook, help), or any other text, which is
\* classified and saved by _save_event (inbox line and history file).
HandleMessage(message) ==
    /\ status_writes' = status_writes + (IF /\ message.kind = "reply"
                                            /\ message.id \in pending_confirmations
                                         THEN 2 ELSE 1)
    /\ CASE message.kind = "reply" ->
              /\ HandleReply(message.id, message.response)
              /\ UNCHANGED <<modeVars, supVars, lineCmdVars, command_history>>
         [] message.kind = "mode" ->
              /\ LineModeCommand(message.mode)
              /\ UNCHANGED <<confVars, supVars, lineCmdVars, command_history>>
         [] message.kind = "audio" ->
              /\ AudioCommandOpen
              /\ UNCHANGED <<modeVars, confVars, supVars, command_history>>
         [] message.kind = "status" ->
              UNCHANGED <<modeVars, confVars, supVars, lineCmdVars, command_history>>
         [] message.kind = "other" ->
              /\ WebhookSaveEvent(message.type, message.text)
              /\ command_history' = command_history + 1
              /\ UNCHANGED <<modeVars, confVars, lineCmdVars>>

\* webhook(): POST /webhook
WebhookPost(signature, message) ==
    /\ posts < MaxPosts
    /\ posts' = posts + 1
    /\ web_signature' = signature
    /\ web_kind' = message.kind
    /\ IF ~Verified(signature)
       THEN /\ http_status' = 400
            /\ UNCHANGED <<modeVars, confVars, supVars, lineCmdVars,
                           command_history, status_writes>>
       ELSE /\ http_status' = 200
            /\ HandleMessage(message)

InitWebhook ==
    /\ posts = 0
    /\ http_status = 0
    /\ web_signature = ""
    /\ web_kind = ""
    /\ status_writes = 0
    /\ command_history = 0

OutsideWebhook == UNCHANGED <<audioVars, billVars, tickVars, agentVars, execVars, schedVars, monoVars, healthVars, failVars, logVars, notifyVars, runVars>>

NextWebhook ==
    \/ (\E s \in Signatures, m \in Messages : WebhookPost(s, m)) /\ OutsideWebhook
    \/ (LineOpen /\ UNCHANGED <<confVars, supVars, lineCmdVars, webVars>>) /\ OutsideWebhook
    \/ (LineDump /\ UNCHANGED <<confVars, supVars, lineCmdVars, webVars>>) /\ OutsideWebhook
    \/ (LineHistory /\ UNCHANGED <<confVars, supVars, lineCmdVars, webVars>>) /\ OutsideWebhook
    \/ (AudioCommandDump /\ UNCHANGED <<modeVars, confVars, supVars, webVars>>) /\ OutsideWebhook
    \/ (SaveConfirmationResult /\ UNCHANGED <<modeVars, supVars, lineCmdVars, webVars>>) /\ OutsideWebhook
    \/ (RequestConfirmation /\ UNCHANGED <<modeVars, supVars, lineCmdVars, webVars>>) /\ OutsideWebhook
    \/ (\E id \in ConfirmationIds : RequestBillingConfirmation(id)
          /\ UNCHANGED <<modeVars, supVars, lineCmdVars, webVars>>) /\ OutsideWebhook
    \/ (Poll /\ UNCHANGED <<modeVars, supVars, lineCmdVars, webVars>>) /\ OutsideWebhook
    \/ (Timeout /\ UNCHANGED <<modeVars, supVars, lineCmdVars, webVars>>) /\ OutsideWebhook

----------------------------------------------------------------------------
(* Monologue engine: audio/monologue_engine.py, audio/audio_manager.py *)

\* class AudioState
AudioStates == {"idle", "listening", "thinking", "speaking"}

Hours == 0..23

\* MonologueEngine.__init__: quiet_start and quiet_end
quiet_start == 22
quiet_end == 6

\* is_quiet_hours
is_quiet_hours(hour) ==
    IF quiet_start > quiet_end
    THEN hour >= quiet_start \/ hour < quiet_end
    ELSE quiet_start <= hour /\ hour < quiet_end

\* get_volume
get_volume(hour) == IF is_quiet_hours(hour) THEN "night_volume" ELSE "base_volume"

\* _select_monologue: the pool of templates the line is drawn from, with the
\* system status in its normal range.
select_monologue(hour) == IF is_quiet_hours(hour) THEN "night" ELSE "idle"

NoEmission == [state |-> "none", muted |-> FALSE, hour |-> 0, pool |-> "none",
               volume |-> "none"]

\* check_and_generate: "if not self.enabled or self.muted: return None"
Silenced(muted) == ~engine_enabled \/ muted

\* MonologueEngine(...) in AudioManager.__init__, at some hour of the day
MonologueEngineNew(enabled) ==
    /\ monologue_pc = "new"
    /\ engine_enabled' = enabled
    /\ wall_hour' \in Hours
    /\ monologue_pc' = "sleep"
    /\ UNCHANGED <<engine_muted, engine_due, emissions, emitted>>
    /\ UNCHANGED audio_state

\* _set_state by the listener, the talk thread and the speak worker
SetState(state) ==
    /\ monologue_pc # "new"
    /\ state # audio_state
    /\ audio_state' = state
    /\ UNCHANGED <<engine_enabled, engine_muted, engine_due, wall_hour, monologue_pc,
                   emissions, emitted>>

\* toggle_mute, from _handle_monologue_toggle
toggle_mute ==
    /\ monologue_pc # "new"
    /\ engine_muted' = ~engine_muted
    /\ UNCHANGED <<engine_enabled, engine_due, wall_hour, monologue_pc,
                   emissions, emitted>>
    /\ UNCHANGED audio_state

\* The wall clock: the hour changes, and the random interval runs out.
HourPasses ==
    /\ monologue_pc # "new"
    /\ wall_hour' = (wall_hour + 1) % 24
    /\ UNCHANGED <<engine_enabled, engine_muted, engine_due, monologue_pc,
                   emissions, emitted>>
    /\ UNCHANGED audio_state

IntervalElapses ==
    /\ monologue_pc # "new"
    /\ ~engine_due
    /\ engine_due' = TRUE
    /\ UNCHANGED <<engine_enabled, engine_muted, wall_hour, monologue_pc,
                   emissions, emitted>>
    /\ UNCHANGED audio_state

\* _monologue_worker: "if self.monologue and self.state == AudioState.IDLE"
MonologueWorkerTest ==
    /\ monologue_pc = "sleep"
    /\ audio_state = "idle"
    /\ emissions < MaxEmissions
    /\ monologue_pc' = "check"
    /\ UNCHANGED <<engine_enabled, engine_muted, engine_due, wall_hour,
                   emissions, emitted>>
    /\ UNCHANGED audio_state

\* check_and_generate: None when disabled, muted or before _next_time;
\* otherwise the next time is drawn again and a line is selected.
check_and_generate ==
    /\ monologue_pc = "check"
    /\ IF Silenced(engine_muted) \/ ~engine_due
       THEN /\ monologue_pc' = "sleep"
            /\ UNCHANGED <<engine_due, emitted>>
       ELSE /\ engine_due' = FALSE
            /\ emitted' = [state |-> "idle", muted |-> engine_muted, hour |-> wall_hour,
                           pool |-> select_monologue(wall_hour), volume |-> "none"]
            /\ monologue_pc' = "speak"
    /\ UNCHANGED <<engine_enabled, engine_muted, wall_hour, emissions>>
    /\ UNCHANGED audio_state

\* _monologue_worker: get_volume and speak(text, Priority.MONOLOGUE, vol)
MonologueWorkerSpeak ==
    /\ monologue_pc = "speak"
    /\ emitted' = [emitted EXCEPT !.volume = get_volume(wall_hour)]
    /\ emissions' = emissions + 1
    /\ monologue_pc' = "sleep"
    /\ UNCHANGED <<engine_enabled, engine_muted, engine_due, wall_hour>>
    /\ UNCHANGED audio_state

InitMonologue ==
    /\ engine_enabled = TRUE
    /\ engine_muted = FALSE
    /\ engine_due = FALSE
    /\ wall_hour = 0
    /\ monologue_pc = "new"
    /\ emissions = 0
    /\ emitted = NoEmission

\* The arbiter's threads appear here only through the state they set.
RestOfAudio == <<main_pc, tts, recording, speak_queue, clock, puts, calls, listener_pc,
                 talk_pc, mono_pc, worker_pc, dequeued>>

OutsideMonologue == UNCHANGED <<modeVars, supVars, RestOfAudio, confVars, billVars, tickVars, agentVars, execVars, schedVars, lineCmdVars, webVars, healthVars, failVars, logVars, notifyVars, runVars>>

NextMonologue ==
    \/ (\E enabled \in BOOLEAN : MonologueEngineNew(enabled)) /\ OutsideMonologue
    \/ (\E state \in AudioStates : SetState(state)) /\ OutsideMonologue
    \/ (toggle_mute) /\ OutsideMonologue
    \/ (HourPasses) /\ OutsideMonologue
    \/ (IntervalElapses) /\ OutsideMonologue
    \/ (MonologueWorkerTest) /\ OutsideMonologue
    \/ (check_and_generate) /\ OutsideMonologue
    \/ (MonologueWorkerSpeak) /\ OutsideMonologue

----------------------------------------------------------------------------
(* Health monitor: health_monitor.py *)

\* class HealthStatus
HealthStatus == {"OK", "WARN", "CRITICAL", "UNKNOWN"}

\* A reading that raised: the except branch of a check.
Unreadable == -1

\* The readings of one round: the CPU temperature, the RAM and disk
\* percentages, the HDD (mounted and readable, mounted only, absent), the
\* exit code of ping, the seconds since the heartbeat, systemctl is-active.
Temperatures == {Unreadable, 69, 70, 80}
Percentages == {79, 80, 90}
HddStates == {"readable", "unreadable", "absent"}
PingCodes == {0, 1}
HeartbeatAges == {120, 121, 301}
ServiceStates == {"active", "inactive", "error"}

check_cpu_temp(temp) ==
    IF temp = Unreadable THEN "UNKNOWN"
    ELSE IF temp >= 80 THEN "CRITICAL"
    ELSE IF temp >= 70 THEN "WARN"
    ELSE "OK"

check_ram(percent) ==
    IF percent = Unreadable THEN "UNKNOWN"
    ELSE IF percent >= 90 THEN "CRITICAL"
    ELSE IF percent >= 80 THEN "WARN"
    ELSE "OK"

check_disk(pct) ==
    IF pct = Unreadable THEN "UNKNOWN"
    ELSE IF pct >= 90 THEN "CRITICAL"
    ELSE IF pct >= 80 THEN "WARN"
    ELSE "OK"

check_hdd_mount(hdd) ==
    IF hdd = "readable" THEN "OK"
    ELSE IF hdd = "unreadable" THEN "WARN"
    ELSE "CRITICAL"

check_network(returncode) == IF returncode = 0 THEN "OK" ELSE "WARN"

check_ai_loop(age) ==
    IF age > 300 THEN "CRITICAL"
    ELSE IF age > 120 THEN "WARN"
    ELSE "OK"

check_service(active) ==
    IF active = "active" THEN "OK"
    ELSE IF active = "inactive" THEN "CRITICAL"
    ELSE "UNKNOWN"

Statuses(checks) == {checks[i] : i \in 1..Len(checks)}

get_overall_ignoring_warn(checks) ==
    IF checks = <<>> THEN "UNKNOWN"
    ELSE IF "CRITICAL" \in Statuses(checks) THEN "CRITICAL"
    ELSE "OK"

\* get_overall_status
get_overall_status(checks) ==
    IF checks = <<>> THEN "UNKNOWN"
    ELSE IF "CRITICAL" \in Statuses(checks) THEN "CRITICAL"
    ELSE IF "WARN" \in Statuses(checks) THEN "WARN"
    ELSE "OK"

\* run_all_checks: the seven checks in their order; last_results is replaced
\* and _record appends one line to the history file.
RunAllChecks(temp, percent, pct, hdd, returncode, age, active) ==
    /\ health_history < MaxHealthRecords
    /\ health_history' = health_history + 1
    /\ last_results' = <<check_cpu_temp(temp), check_ram(percent), check_disk(pct),
                         check_hdd_mount(hdd), check_network(returncode),
                         check_ai_loop(age), check_service(active)>>
    /\ overall_answer' = "not asked"

\* A caller asks get_overall_status().
GetOverallStatus ==
    /\ overall_answer' = get_overall_status(last_results)
    /\ UNCHANGED <<last_results, health_history>>

InitHealth ==
    /\ last_results = <<>>
    /\ overall_answer = "not asked"
    /\ health_history = 0

OutsideHealth == UNCHANGED <<modeVars, supVars, audioVars, confVars, billVars, tickVars, agentVars, execVars, schedVars, lineCmdVars, webVars, monoVars, failVars, logVars, notifyVars, runVars>>

NextHealth ==
    \/ (\E temp \in Temperatures, percent \in Percentages, pct \in Percentages,
           hdd \in HddStates, returncode \in PingCodes, age \in HeartbeatAges,
           active \in ServiceStates :
             RunAllChecks(temp, percent, pct, hdd, returncode, age, active)) /\ OutsideHealth
    \/ (GetOverallStatus) /\ OutsideHealth

----------------------------------------------------------------------------
(* Self-repair sweep, memory integrity: failsafe.py *)

Topics == {"ship", "crew"}

\* memory/index.json: no file, a file json.load rejects (cut short, empty,
\* not JSON), or the index object, of which the model keeps the topics.
NoIndex == [json |-> "missing", topics |-> {}]
CorruptIndex == [json |-> "corrupt", topics |-> {}]
IndexOf(topics) == [json |-> "object", topics |-> topics]

\* A file of memory/topics: "absent", "empty" (0 bytes) or "text".
NoTopics == [t \in Topics |-> "absent"]

\* _regenerate_index: every *.txt under topics/ is entered, and the index is
\* written over index.json.
regenerate_index(index, files) == IndexOf({t \in Topics : files[t] # "absent"})

\* The check of index.json in _check_memory_integrity: the file is read only
\* "if index_path.exists()", and regenerated when json.load raises.
checked_index(index, files) ==
    IF index.json # "missing"
    THEN IF index.json = "corrupt" THEN regenerate_index(index, files) ELSE index
    ELSE index

\* The actions _check_memory_integrity returns: the directory made, the index
\* regenerated, and one entry for every file of 0 bytes found afterwards.
integrity_actions(dir, index, files) ==
    [memory_dir_create |-> ~dir,
     index_regen |-> index.json = "corrupt",
     zero_byte |-> {t \in Topics : files[t] = "empty"}]

NoActions == [memory_dir_create |-> FALSE, index_regen |-> FALSE, zero_byte |-> {}]

\* check_and_recover on a tick of the watchdog: _check_memory_integrity
CheckMemoryIntegrity ==
    /\ sweeps < MaxSweeps
    /\ sweeps' = sweeps + 1
    /\ memory_dir' = TRUE
    /\ index_file' = checked_index(index_file, topic_files)
    /\ last_actions' = integrity_actions(memory_dir, index_file, topic_files)
    /\ UNCHANGED topic_files

\* The memory manager of the planner saves a topic and its index.
SaveMemory(t, text) ==
    /\ memory_dir
    /\ topic_files' = [topic_files EXCEPT ![t] = IF text THEN "text" ELSE "empty"]
    /\ index_file' = IndexOf(IF index_file.json = "object"
                             THEN index_file.topics \cup {t} ELSE {t})
    /\ UNCHANGED <<memory_dir, last_actions, sweeps>>

\* What happens to the files from outside: a write of the index cut short by
\* a crash or a full disk, the index deleted, the directory deleted.
IndexCorrupted ==
    /\ index_file.json = "object"
    /\ index_file' = CorruptIndex
    /\ UNCHANGED <<memory_dir, topic_files, last_actions, sweeps>>

IndexDeleted ==
    /\ index_file.json # "missing"
    /\ index_file' = NoIndex
    /\ UNCHANGED <<memory_dir, topic_files, last_actions, sweeps>>

MemoryDirDeleted ==
    /\ memory_dir
    /\ memory_dir' = FALSE
    /\ index_file' = NoIndex
    /\ topic_files' = NoTopics
    /\ UNCHANGED <<last_actions, sweeps>>

InitFailsafe ==
    /\ memory_dir = TRUE
    /\ index_file = IndexOf({})
    /\ topic_files = NoTopics
    /\ last_actions = NoActions
    /\ sweeps = 0

OutsideFailsafe == UNCHANGED <<modeVars, supVars, audioVars, confVars, billVars, tickVars, agentVars, execVars, schedVars, lineCmdVars, webVars, monoVars, healthVars, logVars, notifyVars, runVars>>

NextFailsafe ==
    \/ (CheckMemoryIntegrity) /\ OutsideFailsafe
    \/ (\E t \in Topics, text \in BOOLEAN : SaveMemory(t, text)) /\ OutsideFailsafe
    \/ (IndexCorrupted) /\ OutsideFailsafe
    \/ (IndexDeleted) /\ OutsideFailsafe
    \/ (MemoryDirDeleted) /\ OutsideFailsafe

----------------------------------------------------------------------------
(* Execution logs on the interactive provider: line_bot.py, main.py *)

\* "log on" enables the logs for 1800 seconds: two quarters of an hour.
LogWindow == 2

\* run_iteration_with_monitoring: "if self.agent.iteration_count % 10 == 0"
LogEvery == 10

\* is_exec_log_enabled at time t of a LINEBot with the given _exec_log_timeout
\* and exec_log_enabled: the answer, and the timeout it leaves.
is_exec_log_enabled(timeout, enabled, t) ==
    IF timeout # None /\ t < timeout THEN [answer |-> TRUE, timeout |-> timeout]
    ELSE [answer |-> enabled, timeout |-> None]

\* The two processes are started with the same LINE_EXEC_LOG_ENABLED: the
\* webhook server (line_bot.py run as a program) and the supervisor
\* (main.py), each making its own LINEBot.
StartProcesses(enabled) ==
    /\ log_pc = "new"
    /\ log_pc' = "run"
    /\ web_exec_log_enabled' = enabled
    /\ sup_exec_log_enabled' = enabled
    /\ UNCHANGED <<log_clock, web_exec_log_timeout, sup_exec_log_timeout, log_iteration,
                   line_exec_logs, discord_exec_logs>>

\* handle_message of the webhook server for the text "log on"
LogOn ==
    /\ log_pc = "run"
    /\ web_exec_log_timeout' = log_clock + LogWindow
    /\ UNCHANGED <<log_pc, log_clock, web_exec_log_enabled, sup_exec_log_enabled,
                   sup_exec_log_timeout, log_iteration, line_exec_logs, discord_exec_logs>>

\* handle_message of the webhook server for the text "log off"
LogOff ==
    /\ log_pc = "run"
    /\ web_exec_log_timeout' = None
    /\ web_exec_log_enabled' = FALSE
    /\ UNCHANGED <<log_pc, log_clock, sup_exec_log_enabled, sup_exec_log_timeout,
                   log_iteration, line_exec_logs, discord_exec_logs>>

\* run_iteration_with_monitoring after agent.run_iteration: every tenth
\* iteration the log goes to Discord, and to LINE when the supervisor's
\* LINEBot says the logs are enabled.
IterationLog ==
    /\ log_pc = "run"
    /\ log_iteration < MaxLogIterations
    /\ log_iteration' = log_iteration + 1
    /\ IF (log_iteration + 1) % LogEvery = 0
       THEN LET e == is_exec_log_enabled(sup_exec_log_timeout, sup_exec_log_enabled,
                                         log_clock)
            IN /\ discord_exec_logs' = discord_exec_logs + 1
               /\ sup_exec_log_timeout' = e.timeout
               /\ line_exec_logs' = line_exec_logs + (IF e.answer THEN 1 ELSE 0)
       ELSE UNCHANGED <<discord_exec_logs, sup_exec_log_timeout, line_exec_logs>>
    /\ UNCHANGED <<log_pc, log_clock, web_exec_log_enabled, web_exec_log_timeout,
                   sup_exec_log_enabled>>

\* A quarter of an hour passes.
LogClock ==
    /\ log_pc = "run"
    /\ log_clock < MaxLogTime
    /\ log_clock' = log_clock + 1
    /\ UNCHANGED <<log_pc, web_exec_log_enabled, web_exec_log_timeout,
                   sup_exec_log_enabled, sup_exec_log_timeout, log_iteration,
                   line_exec_logs, discord_exec_logs>>

InitExecLog ==
    /\ log_pc = "new"
    /\ log_clock = 0
    /\ web_exec_log_enabled = FALSE
    /\ web_exec_log_timeout = None
    /\ sup_exec_log_enabled = FALSE
    /\ sup_exec_log_timeout = None
    /\ log_iteration = 0
    /\ line_exec_logs = 0
    /\ discord_exec_logs = 0

OutsideExecLog == UNCHANGED <<modeVars, supVars, audioVars, confVars, billVars, tickVars, agentVars, execVars, schedVars, lineCmdVars, webVars, monoVars, healthVars, failVars, notifyVars, runVars>>

NextExecLog ==
    \/ (\E enabled \in BOOLEAN : StartProcesses(enabled)) /\ OutsideExecLog
    \/ (LogOn) /\ OutsideExecLog
    \/ (LogOff) /\ OutsideExecLog
    \/ (IterationLog) /\ OutsideExecLog
    \/ (LogClock) /\ OutsideExecLog

----------------------------------------------------------------------------
(* Notifier: main.py, line_bot.py, discord_notifier.py, ship_mode.py *)

\* ShipMode.MODES: the "line_notify" of each mode
line_notify(mode) ==
    CASE mode = "autonomous" -> "minimal"
      [] mode = "user_first" -> "responsive"
      [] mode = "maintenance" -> "status"
      [] mode = "power_save" -> "critical"
      [] mode = "safe" -> "all"

CostAlertLevels == {"warning", "alert", "stop"}

NoPush == [level |-> "none", detail |-> "", mode |-> ""]

\* send_message / send_status / send_..._notification of the two notifiers:
\* the message is pushed; no mode is read.
Push(level, detail) ==
    /\ pushes < MaxPushes
    /\ pushes' = pushes + 1
    /\ last_push' = [level |-> level, detail |-> detail, mode |-> current_mode]

\* send_startup_notifications
SendStartupNotifications ==
    /\ notify_pc = "new"
    /\ Push("startup", "")
    /\ notify_pc' = "run"
    /\ UNCHANGED modeVars

\* A switch of the mode while the supervisor runs.
NotifySwitch(mode) ==
    /\ notify_pc = "run"
    /\ Switch(mode, "user")
    /\ UNCHANGED notifyVars

\* _handle_event, query: line.send_status("thinking")
SendStatus ==
    /\ notify_pc = "run"
    /\ Push("status", "")
    /\ UNCHANGED <<notify_pc, modeVars>>

\* run_iteration_with_monitoring: send_cost_alert at a threshold
SendCostAlert(alert_level) ==
    /\ notify_pc = "run"
    /\ Push("cost_alert", alert_level)
    /\ UNCHANGED <<notify_pc, modeVars>>

\* run_iteration_with_monitoring: send_execution_log every tenth iteration
SendExecutionLog ==
    /\ notify_pc = "run"
    /\ Push("execution_log", "")
    /\ UNCHANGED <<notify_pc, modeVars>>

\* run_iteration_with_monitoring: send_error_notification in the except
SendErrorNotification ==
    /\ notify_pc = "run"
    /\ Push("error", "")
    /\ UNCHANGED <<notify_pc, modeVars>>

\* send_shutdown_notifications
SendShutdownNotifications ==
    /\ notify_pc = "run"
    /\ Push("shutdown", "")
    /\ notify_pc' = "stopped"
    /\ UNCHANGED modeVars

InitNotify ==
    /\ notify_pc = "new"
    /\ pushes = 0
    /\ last_push = NoPush

OutsideNotify == UNCHANGED <<supVars, audioVars, confVars, billVars, tickVars, agentVars, execVars, schedVars, lineCmdVars, webVars, monoVars, healthVars, failVars, logVars, runVars>>

NextNotify ==
    \/ (SendStartupNotifications) /\ OutsideNotify
    \/ (\E mode \in MODES : NotifySwitch(mode)) /\ OutsideNotify
    \/ (SendStatus) /\ OutsideNotify
    \/ (\E alert_level \in CostAlertLevels : SendCostAlert(alert_level)) /\ OutsideNotify
    \/ (SendExecutionLog) /\ OutsideNotify
    \/ (SendErrorNotification) /\ OutsideNotify
    \/ (SendShutdownNotifications) /\ OutsideNotify

----------------------------------------------------------------------------
(* The supervisor loop in time: main.py __init__, run, handle_shutdown,
   _register_periodic_tasks; health_monitor.py update_heartbeat.
   One tick of run_clock is ten seconds. *)

\* time.time() when the supervisor is constructed: later than every
\* interval_sec after the epoch, so a task with last_run = 0 is due.
BootTime == 9000

\* MODES[mode]["iteration_interval"], in ticks: 30, 10, 60, 300 and 60 seconds
iteration_interval(mode) ==
    CASE mode = "autonomous" -> 3
      [] mode = "user_first" -> 1
      [] mode = "maintenance" -> 6
      [] mode = "power_save" -> 30
      [] mode = "safe" -> 6

\* _register_periodic_tasks: the cold-file archive (86400 s), the fast-tier
\* fullness check (3600 s), the health probes (300 s) and the self-repair
\* sweep (600 s), intervals in ticks
DefaultTasks ==
    << PeriodicTask("archive", 8640, FALSE, [given |-> TRUE, modes |-> {"autonomous", "maintenance"}]),
       PeriodicTask("ssd", 360, FALSE, NoModes),
       PeriodicTask("health", 30, FALSE, NoModes),
       PeriodicTask("repair", 60, FALSE,
                    [given |-> TRUE, modes |-> {"autonomous", "maintenance", "safe"}]) >>

\* the durations of run_iteration_with_monitoring, in ticks
IterationTimes == {0, 1}

\* run_due_tasks(current_mode) at the time t: every task that should run is
\* called and stamped.
run_due_tasks(ts, t, mode) ==
    [i \in DOMAIN ts |-> IF should_run(ts[i], t, mode, TRUE) THEN AfterReturn(ts[i], t) ELSE ts[i]]

\* The health probes are run by run_due_tasks at the time t.
HealthRuns(ts, t, mode) ==
    \E i \in DOMAIN ts : ts[i].name = "health" /\ should_run(ts[i], t, mode, TRUE)

\* IntegratedSystem.__init__: the mode ShipMode restored, HealthMonitor(), and
\* the scheduler with its tasks only when CALENDAR_ICS_URL is set.
IntegratedSystemNew(mode, calendar) ==
    /\ run_pc = "new"
    /\ run_pc' = "head"
    /\ run_mode' = mode
    /\ run_running' = TRUE
    /\ run_scheduler' = calendar
    /\ run_tasks' = IF calendar THEN DefaultTasks ELSE <<>>
    /\ ai_heartbeat' = run_clock
    /\ UNCHANGED <<run_clock, sleep_left, probe, signal_at, stopped_at>>

\* handle_shutdown: self.running = False, and nothing else.
HandleShutdown ==
    /\ run_pc \notin {"new", "stopped"}
    /\ run_running
    /\ run_running' = FALSE
    /\ signal_at' = run_clock
    /\ UNCHANGED <<run_pc, run_clock, run_mode, run_scheduler, run_tasks, sleep_left,
                   ai_heartbeat, probe, stopped_at>>

\* while self.running
RunHead ==
    /\ run_pc = "head"
    /\ run_pc' = IF run_running THEN "iterate" ELSE "shutdown"
    /\ UNCHANGED <<run_clock, run_mode, run_running, run_scheduler, run_tasks, sleep_left,
                   ai_heartbeat, probe, signal_at, stopped_at>>

\* run_iteration_with_monitoring() and the display update
RunIterationTimed(took) ==
    /\ run_pc = "iterate"
    /\ run_clock + took <= BootTime + MaxRunTime
    /\ run_clock' = run_clock + took
    /\ run_pc' = "scheduler"
    /\ UNCHANGED <<run_mode, run_running, run_scheduler, run_tasks, sleep_left,
                   ai_heartbeat, probe, signal_at, stopped_at>>

\* if self.scheduler: ... run_due_tasks(self.ship_mode.current_mode)
RunScheduler ==
    /\ run_pc = "scheduler"
    /\ run_pc' = "heartbeat"
    /\ IF run_scheduler
       THEN /\ run_tasks' = run_due_tasks(run_tasks, run_clock, run_mode)
            /\ probe' = IF HealthRuns(run_tasks, run_clock, run_mode)
                        THEN check_ai_loop((run_clock - ai_heartbeat) * 10)
                        ELSE probe
       ELSE UNCHANGED <<run_tasks, probe>>
    /\ UNCHANGED <<run_clock, run_mode, run_running, run_scheduler, sleep_left,
                   ai_heartbeat, signal_at, stopped_at>>

\* self.health.update_heartbeat(), then wait_sec from the mode and
\* if self.running: time.sleep(wait_sec)
UpdateHeartbeat ==
    /\ run_pc = "heartbeat"
    /\ ai_heartbeat' = run_clock
    /\ sleep_left' = IF run_running THEN iteration_interval(run_mode) ELSE 0
    /\ run_pc' = "sleep"
    /\ UNCHANGED <<run_clock, run_mode, run_running, run_scheduler, run_tasks,
                   probe, signal_at, stopped_at>>

\* time.sleep(wait_sec) goes on: a signal whose handler returns does not end it.
Sleep ==
    /\ run_pc = "sleep"
    /\ sleep_left > 0
    /\ run_clock < BootTime + MaxRunTime
    /\ run_clock' = run_clock + 1
    /\ sleep_left' = sleep_left - 1
    /\ UNCHANGED <<run_pc, run_mode, run_running, run_scheduler, run_tasks,
                   ai_heartbeat, probe, signal_at, stopped_at>>

\* time.sleep returns: back to the head of the loop.
Wake ==
    /\ run_pc = "sleep"
    /\ sleep_left = 0
    /\ run_pc' = "head"
    /\ UNCHANGED <<run_clock, run_mode, run_running, run_scheduler, run_tasks, sleep_left,
                   ai_heartbeat, probe, signal_at, stopped_at>>

\* self.shutdown(): the final notifications and the diary entry
RunShutdown ==
    /\ run_pc = "shutdown"
    /\ run_pc' = "stopped"
    /\ stopped_at' = run_clock
    /\ UNCHANGED <<run_clock, run_mode, run_running, run_scheduler, run_tasks, sleep_left,
                   ai_heartbeat, probe, signal_at>>

InitRun ==
    /\ run_pc = "new"
    /\ run_clock = BootTime
    /\ run_mode = "autonomous"
    /\ run_running = FALSE
    /\ run_scheduler = FALSE
    /\ run_tasks = <<>>
    /\ sleep_left = 0
    /\ ai_heartbeat = BootTime
    /\ probe = "none"
    /\ signal_at = None
    /\ stopped_at = None

OutsideRun == UNCHANGED <<modeVars, supVars, audioVars, confVars, billVars, tickVars, agentVars, execVars, schedVars, lineCmdVars, webVars, monoVars, healthVars, failVars, logVars, notifyVars>>

NextRun ==
    \/ (\E mode \in MODES, calendar \in BOOLEAN : IntegratedSystemNew(mode, calendar)) /\ OutsideRun
    \/ (HandleShutdown) /\ OutsideRun
    \/ (RunHead) /\ OutsideRun
    \/ (\E took \in IterationTimes : RunIterationTimed(took)) /\ OutsideRun
    \/ (RunScheduler) /\ OutsideRun
    \/ (UpdateHeartbeat) /\ OutsideRun
    \/ (Sleep) /\ OutsideRun
    \/ (Wake) /\ OutsideRun
    \/ (RunShutdown) /\ OutsideRun

----------------------------------------------------------------------------
(* Specifications *)

Init ==
    /\ InitMode /\ InitSup /\ InitAudio /\ InitConfirm /\ InitBilling /\ InitTick
    /\ InitAgent /\ InitExecutor /\ InitScheduler /\ InitLineCmd /\ InitWebhook /\ InitMonologue /\ InitHealth /\ InitFailsafe /\ InitExecLog /\ InitNotify /\ InitRun

SpecMode == Init /\ [][NextMode]_vars

SpecSnapshot == Init /\ [][NextSnapshot]_vars

SpecSupervisor == Init /\ [][NextSupervisor]_vars

SpecAudio == Init /\ [][NextAudio]_vars

SpecConfirm == Init /\ [][NextConfirm]_vars

SpecBilling == Init /\ [][NextBilling]_vars

SpecTick == Init /\ [][NextTick]_vars

SpecAgent == Init /\ [][NextAgent]_vars

SpecExecutor == Init /\ [][NextExecutor]_vars

SpecScheduler == Init /\ [][NextScheduler]_vars

SpecLineCmd == Init /\ [][NextLineCmd]_vars

SpecWebhook == Init /\ [][NextWebhook]_vars

SpecMonologue == Init /\ [][NextMonologue]_vars

SpecHealth == Init /\ [][NextHealth]_vars

SpecFailsafe == Init /\ [][NextFailsafe]_vars

SpecExecLog == Init /\ [][NextExecLog]_vars

SpecNotify == Init /\ [][NextNotify]_vars

SpecRun == Init /\ [][NextRun]_vars

\* The polling loop of request_confirmation runs on: each pass and the exit
\* by timeout are taken when they can be.
PollingLoop == (Poll \/ Timeout) /\ UNCHANGED <<modeVars, supVars, audioVars, billVars, tickVars, laterVars>>

SpecConfirmFair == SpecConfirm /\ WF_vars(PollingLoop)

\* The threads of the arbiter run on: the input listener finishes the speak()
\* call it is in, and the speak worker and a talk thread take their next step
\* when they have one.
ListenerSpeaks == ListenerPut /\ OutsideAudio
SpeakWorker == (WorkerGet \/ DoSpeak \/ SynthesizeFails \/ Play \/ PlayDone) /\ OutsideAudio
TalkThread ==
    (ProcessTalkThinking \/ ProcessTalkSpeak \/ ProcessTalkError \/ TalkPut) /\ OutsideAudio

SpecAudioFair ==
    SpecAudio /\ WF_vars(ListenerSpeaks) /\ WF_vars(SpeakWorker) /\ WF_vars(TalkThread)

----------------------------------------------------------------------------
(* Claims about the operating mode *)

C2_HistoryChained ==
    \A i \in 1..(Len(mode_history) - 1) :
        mode_history[i].to = mode_history[i + 1].from

\* C5: a reader of the mode snapshot finds a complete JSON object (or no
\* file at all before the first write), never an empty or truncated file.
C5_ReaderSeesWholeObject == reader_saw # "empty"

\* No writer is in the middle of an operation on the snapshot.
Quiescent == line_pc = "idle" /\ gui_pc = "idle" /\ oled_pc = "idle"

\* C10: every change of the snapshot's mode comes with a history record:
\* once the writers have finished, the mode in the snapshot is the "to" of
\* the last history record, or the default mode when nothing was recorded.
C10_SnapshotModeRecorded ==
    (Quiescent /\ state_file.json = "object")
        => state_file.mode = (IF mode_history = <<>> THEN DEFAULT_MODE
                              ELSE mode_history[Len(mode_history)].to)

\* A manual override is in force according to the snapshot: the flag is set
\* and the deadline, if there is one, has not passed.
ManualOverrideInForce ==
    /\ state_file.json = "object"
    /\ state_file.override
    /\ (state_file.override_until = None \/ now < state_file.override_until)

\* C11: while a manual override is in force, whether set by override(), by
\* the chat mode command or by the GUI, check_calendar_mode changes neither
\* the manager's current mode nor the mode of the snapshot.
C11_CalendarBlockedByManualOverride ==
    [][\A is_work \in BOOLEAN :
          (ManualOverrideInForce /\ CheckCalendarMode(is_work))
              => (current_mode' = current_mode /\ state_file'.mode = state_file.mode)]_vars

----------------------------------------------------------------------------
(* Claims about the supervisor, the inbox and the planner *)

\* C1: every event appended to the inbox is acted upon by the planner
\* exactly once: it is never handled twice, and an event not handled yet is
\* still in the inbox file or among the lines the drain has read.
C1_EveryEventHandledOnce ==
    \A id \in 1..(next_event - 1) :
        /\ handled[id] <= 1
        /\ handled[id] = 0 =>
              \/ \E i \in 1..Len(inbox_file) : inbox_file[i].id = id
              \/ \E i \in 1..Len(sup_lines) : sup_lines[i].id = id

\* C3: while the user-goal latch set by update_goal(text, source="user") is
\* on, a planner iteration whose plan has a non-empty next_goal and whose
\* say contains no completion marker leaves current_goal equal to the user's
\* text and leaves user_goal_active set.
C3_UserGoalLatch ==
    [][\A a \in Plans :
          (user_goal_active /\ a.next_goal # "" /\ ~ContainsMarker(a.say)
             /\ AgentIteration(a))
              => (current_goal' = user_text /\ user_goal_active')]_vars

\* Such an iteration has run since the user set the goal.
C3_Witness ==
    /\ user_goal_active /\ user_text # "" /\ current_goal = user_text
    /\ last_action.parsed /\ last_action.next_goal # ""
    /\ ~ContainsMarker(last_action.say)

\* Where the supervisor is once it is past the agent call of an iteration.
Leaving == {"tail", "head", "shutdown", "stopped"}

\* C9: when the cost check of an iteration returns stop, the iteration runs
\* no planner iteration and clears running, and from then on the supervisor
\* only leaves its loop: it never reaches the inbox, the cost check or the
\* agent again.
C9_StopHaltsPlanner ==
    [][/\ (BillingCheck /\ check_threshold(today_cost, day) = "stop")
            => (sup_pc' = "tail" /\ ~running' /\ iteration_count' = iteration_count)
       /\ (~running /\ sup_pc \in Leaving)
            => (sup_pc' \in Leaving /\ ~running'
                /\ iteration_count' = iteration_count)]_vars

\* The supervisor has run a planner iteration, then met stop and shut down.
C9_Witness ==
    alert = "stop" /\ sup_pc = "stopped" /\ iteration_count > 0 /\ ~running

----------------------------------------------------------------------------
(* Claims about the voice arbiter *)

\* C4: if request A is put into the speak queue before request B and
\* A.priority <= B.priority, the worker takes A before B: B is never taken
\* while A waits in the queue, and the two are never taken in the order B, A.
C4_SpeakOrder ==
    /\ \A b \in 1..Len(dequeued) : \A a \in speak_queue :
          ~(a.put < dequeued[b].put /\ a.prio <= dequeued[b].prio)
    /\ \A i, j \in 1..Len(dequeued) :
          (dequeued[i].put < dequeued[j].put /\ dequeued[i].prio <= dequeued[j].prio)
              => i < j

\* C7: the recorder is never capturing while the speak worker plays.
C7_NoRecordingWhilePlaying == ~(recording /\ worker_pc = "playing")

\* C8: a talk_press that finds the state idle moves it to listening and
\* starts the recorder; one that finds it listening, thinking or speaking
\* starts no recording and changes no state.
C8_TalkPressOnlyWhenIdle ==
    [][/\ (HandleTalkPress /\ audio_state # "idle") => listener_pc' = "idle"
       /\ TalkPressListen =>
             IF audio_state = "idle"
             THEN audio_state' = "listening" /\ recording'
             ELSE UNCHANGED <<audio_state, recording>>]_vars

\* C12: a request that arrives while the worker synthesizes or plays another
\* one does not interrupt it, whatever its priority: the arrival leaves the
\* worker where it is, and the worker takes a request from the queue only
\* when it has finished the one before.
C12_NoPreemption ==
    [][/\ (worker_pc \in {"synth", "playing"} /\ puts' > puts)
            => (worker_pc' = worker_pc /\ dequeued' = dequeued)
       /\ (Len(dequeued') > Len(dequeued)) => worker_pc = "idle"]_vars

\* A request of higher priority arrived while a request was playing, was
\* taken after it, and is now playing itself.
C12_Witness ==
    /\ worker_pc = "playing"
    /\ Len(dequeued) > 1
    /\ dequeued[Len(dequeued)].during
    /\ dequeued[Len(dequeued)].prio < dequeued[Len(dequeued) - 1].prio

----------------------------------------------------------------------------
(* Claims about cost confirmations *)

\* C13: a chat reply approving (denying) a confirmation's id that arrives
\* before the timeout makes request_confirmation return approved (denied):
\* a call that has returned after such a reply returned that answer.
C13_ReplyDecides ==
    \A id \in ConfirmationIds :
        (results[id] # "none" /\ replied[id] \in Responses)
            => results[id] = (IF replied[id] = "approve" THEN "approved" ELSE "denied")

\* C14: a call of request_confirmation to which no reply arrives returns,
\* and returns the automatic refusal: never approved, and, run on, it does
\* not stay in its loop.
C14_NoReplyExpires ==
    /\ [](\A id \in ConfirmationIds :
            replied[id] = "none" => results[id] \in {"none", "expired"})
    /\ \A id \in ConfirmationIds :
          (conf_pc = "poll" /\ conf_id = id)
              ~> (results[id] = "expired" \/ replied[id] # "none")

\* A call has ended by its timeout with no reply having arrived.
C14_Witness ==
    \E id \in ConfirmationIds :
        results[id] = "expired" /\ replied[id] = "none" /\ elapsed = timeout_seconds

----------------------------------------------------------------------------
(* Claims about the cost guard's ledger *)

\* C15: within one calendar day today's cost never decreases, and the total
\* cost never decreases, whatever operation of the cost guard is called.
C15_CostsNeverDecrease ==
    [][/\ bill_day' = bill_day
            => get_today_cost(daily_usage', bill_day) >= get_today_cost(daily_usage, bill_day)
       /\ total_cost' >= total_cost]_vars

\* C16: on a special day (thresholds 500 / 900 / 1000 yen) check_threshold
\* returns the highest level whose threshold today's cost has reached:
\* warning at 501 yen, alert at 901, stop at 1001, nothing below 500.
C16_HighestLevelOnSpecialDay ==
    (bill_level # "" /\ is_special_day(bill_day)) =>
        LET cost == get_today_cost(daily_usage, bill_day)
        IN /\ cost < Yen(500) => bill_level = "none"
           /\ (Yen(500) <= cost /\ cost < Yen(900)) => bill_level = "warning"
           /\ (Yen(900) <= cost /\ cost < Yen(1000)) => bill_level = "alert"
           /\ Yen(1000) <= cost => bill_level = "stop"
           /\ cost = Yen(501) => bill_level = "warning"
           /\ cost = Yen(901) => bill_level = "alert"
           /\ cost = Yen(1001) => bill_level = "stop"

\* Records of one yen have brought today's cost of a special day to 901 yen
\* and the check has answered alert.
C16_Witness ==
    /\ is_special_day(bill_day)
    /\ get_today_cost(daily_usage, bill_day) = Yen(901)
    /\ records > 0
    /\ bill_level = "alert"

----------------------------------------------------------------------------
(* More claims about the planner's goal *)

\* C17: when user_goal_active is set and the plan of an iteration has a
\* non-empty next_goal and a say that contains a completion marker,
\* current_goal becomes that next_goal and user_goal_active becomes false.
C17_MarkerReleasesLatch ==
    [][\A a \in Plans :
          (user_goal_active /\ a.next_goal # "" /\ ContainsMarker(a.say)
             /\ AgentIteration(a))
              => (current_goal' = a.next_goal /\ ~user_goal_active')]_vars

\* The user set a goal and a later plan with a completion marker replaced it.
C17_Witness ==
    /\ user_text # "" /\ ~user_goal_active
    /\ last_action.parsed /\ last_action.next_goal # ""
    /\ ContainsMarker(last_action.say)
    /\ current_goal = last_action.next_goal /\ current_goal # user_text

----------------------------------------------------------------------------
(* Claims about the supervisor's use of the mode *)

\* C18: once a writer (mode manager, chat command, GUI) has changed the mode
\* snapshot, the supervisor's next pass gates its scheduled tasks and its
\* sleep by the snapshot's mode: a pass made while the snapshot is complete
\* and no write is in progress uses the mode the snapshot holds.
C18_TickUsesSnapshotMode ==
    [][\A is_work \in BOOLEAN :
          (Quiescent /\ state_file.json = "object" /\ SupervisorTick(is_work))
              => tick_mode' = state_file'.mode]_vars

----------------------------------------------------------------------------
(* More claims about the operating mode *)

\* C19: switch(target, reason, source) with target equal to the current mode
\* is refused: it does not report success and changes neither the mode
\* snapshot nor the mode history.
C19_SameModeRefused ==
    [][\A m \in SwitchTargets, src \in Sources :
          (m = current_mode /\ Switch(m, src))
              => (~Success(last_result') /\ UNCHANGED <<state_file, mode_history>>)]_vars

----------------------------------------------------------------------------
(* Claims about the planner's iteration *)

\* The reply is not a JSON object holding every required key.
Malformed(response) ==
    \/ response.doc.kind # "object"
    \/ ~(required_keys \subseteq response.doc.keys)

\* C21: an iteration whose reply is not parseable JSON or lacks a required key
\* is skipped: it executes no command, writes no memory file and no diary
\* line, and leaves current_goal and user_goal_active as they were.
C21_MalformedSkipped ==
    [][(iteration_count' = iteration_count + 1 /\ Malformed(gpt_response'))
       => /\ returned' = FALSE
          /\ UNCHANGED <<executed, memory_writes, diary_writes,
                         current_goal, user_goal_active>>]_vars

\* An iteration has been skipped on an object that lacks only "cmd", while a
\* user goal was in force and an earlier iteration had run its plan.
C21_Witness ==
    /\ iteration_count = 2
    /\ gpt_response.doc.kind = "object"
    /\ gpt_response.doc.keys = required_keys \ {"cmd"}
    /\ ~returned
    /\ executed = 1 /\ memory_writes = 1 /\ diary_writes = 1
    /\ user_goal_active

----------------------------------------------------------------------------
(* Claims about the command executor *)

\* C22: every command whose argv holds a path-like argument that resolves
\* outside the allowed roots is refused by execute, which runs no child
\* process for it.
C22_OutsidePathsRefused ==
    [][(/\ executions' = executions + 1
        /\ \E a \in extract_pathlike_args(exec_command'.args) : ~is_under_allowed_roots(a))
       => (exec_result' = "rejected" /\ spawned' = spawned)]_vars

----------------------------------------------------------------------------
(* Claims about the task scheduler *)

C24_RunBookkeeping ==
    [][(sched_pc \in 1..Len(tasks) /\ sched_pc' = sched_pc + 1 /\ examined'.ran)
       => /\ tasks'[sched_pc].last_run = sched_time'
          /\ tasks'[sched_pc].run_count = tasks[sched_pc].run_count + 1
          /\ Len(sched_results') = Len(sched_results) + 1
          /\ sched_results'[Len(sched_results')].name = tasks[sched_pc].name]_vars

----------------------------------------------------------------------------
(* Claims about the audio command file *)

\* C29: under any interleaving of the poller with the webhook writing a new
\* command, each command written to the file is dispatched at most once, and
\* the poller deletes the file only when the file holds a command that has
\* been dispatched.
C29_DispatchedOnceDeletedAfter ==
    [][/\ \A c \in CommandStamps : dispatched'[c] <= 1
       /\ (audio_cmd_file # Absent /\ audio_cmd_file' = Absent)
             => (audio_cmd_file # Truncated /\ dispatched[audio_cmd_file] >= 1)]_vars

----------------------------------------------------------------------------
(* Claims about the webhook *)

\* C25: a POST to the webhook whose signature does not verify is answered
\* with 400 and writes nothing: not to the inbox, the command history, the
\* mode snapshot or its history, nor to any confirmation file.
C25_BadSignatureWritesNothing ==
    [][(posts' = posts + 1 /\ web_signature' = "invalid")
       => /\ http_status' = 400
          /\ UNCHANGED <<inbox_file, command_history, state_file, mode_history,
                         line_pc, conf_files, reply_pc, audio_cmd_file, status_writes>>]_vars

\* A text that would have been saved came with a bad signature and was
\* answered with 400, after a first one with a good signature was saved.
C25_Witness ==
    /\ posts = 2
    /\ web_signature = "invalid" /\ web_kind = "other"
    /\ http_status = 400
    /\ Len(inbox_file) = 1 /\ command_history = 1

----------------------------------------------------------------------------
(* Claims about query events *)

\* C26: processing an inbox event of type query never changes current_goal
\* or user_goal_active.
C26_QueryLeavesGoal ==
    [][(/\ sup_pc = "handle" /\ sup_lines # <<>> /\ sup_lines' = Tail(sup_lines)
        /\ Head(sup_lines).type = "query")
       => UNCHANGED <<current_goal, user_goal_active>>]_vars

\* A goal event and then a query event have been processed; the goal of the
\* first is in force and latched.
C26_Witness ==
    /\ sup_pc = "handle" /\ sup_lines = <<>>
    /\ Len(inbox_file) >= 2
    /\ inbox_file[1].type = "goal" /\ inbox_file[2].type = "query"
    /\ handled[inbox_file[1].id] = 1 /\ handled[inbox_file[2].id] = 1
    /\ user_goal_active /\ current_goal = inbox_file[1].text

----------------------------------------------------------------------------
(* Claims about an empty recording *)

\* The speak worker has taken the request of priority TALK and time t.
TakenBySpeaker(t) ==
    \E i \in 1..Len(dequeued) : dequeued[i].prio = TALK /\ dequeued[i].time = t

----------------------------------------------------------------------------
(* Claims about the monologue engine *)

\* C28: a monologue line is produced only when the state is idle, the hour is
\* outside the quiet hours and the engine is not muted (the state and the mute
\* flag as the worker read them, the hour as check_and_generate found it).
C28_MonologueOnlyIdleDayUnmuted ==
    emitted # NoEmission =>
        /\ emitted.state = "idle"
        /\ ~emitted.muted
        /\ ~is_quiet_hours(emitted.hour)

----------------------------------------------------------------------------
(* Claims about the health monitor *)

\* The order OK < WARN < CRITICAL; UNKNOWN has no place in it.
Ordered == {"OK", "WARN", "CRITICAL"}
Rank(status) == IF status = "OK" THEN 0 ELSE IF status = "WARN" THEN 1 ELSE 2

\* C30: after run_all_checks, get_overall_status returns the greatest status
\* among the component results under the order OK < WARN < CRITICAL.
C30_OverallIsWorst ==
    (last_results # <<>> /\ overall_answer # "not asked") =>
        LET placed == Statuses(last_results) \cap Ordered
        IN  /\ overall_answer \in placed
            /\ \A status \in placed : Rank(status) <= Rank(overall_answer)

\* A round with a WARN, no CRITICAL and an unreadable component has been
\* asked about, and the answer was WARN.
C30_Witness ==
    /\ overall_answer = "WARN"
    /\ "UNKNOWN" \in Statuses(last_results)
    /\ "OK" \in Statuses(last_results)
    /\ "CRITICAL" \notin Statuses(last_results)

----------------------------------------------------------------------------
(* Claims about the end of an override *)

\* C38: once override_until has passed, a calendar-sourced switch to a mode
\* other than the current one succeeds, clears the override flag and the
\* deadline, and is recorded in the mode history.
C38_ExpiredOverrideYields ==
    [][\A m \in MODES :
         (/\ Switch(m, "calendar")
          /\ m # current_mode
          /\ override_active /\ override_until # None /\ now > override_until)
         => /\ last_result' = "switched"
            /\ current_mode' = m
            /\ ~override_active'
            /\ override_until' = None
            /\ mode_history' = Append(mode_history, [from |-> current_mode, to |-> m])
            /\ state_file' = Snapshot(m, FALSE, None)]_vars

\* An override has run out and the calendar has then switched the mode: the
\* last line of the history is that switch and the override is cleared.
C38_Witness ==
    /\ deadline # None /\ now > deadline
    /\ last_result = "switched"
    /\ ~override_active /\ override_until = None
    /\ Len(mode_history) >= 1
    /\ mode_history[Len(mode_history)].to = current_mode
    /\ state_file = Snapshot(current_mode, FALSE, None)

----------------------------------------------------------------------------
(* Claims about an override to the current mode *)

\* C39: override(target, duration) with target equal to the current mode
\* still establishes the override: the flag and the deadline are in the
\* manager and in the mode snapshot, and every calendar-sourced switch to
\* another mode before the deadline is refused.
C39_OverrideToCurrentMode ==
    [][\A d \in Durations, src \in Sources :
         Override(current_mode, d, src)
         => /\ current_mode' = current_mode
            /\ override_active'
            /\ override_until' = now + d
            /\ state_file' = Snapshot(current_mode, TRUE, now + d)
            /\ mode_history' = mode_history
            /\ \A m \in MODES \ {current_mode}, t \in now..(now + d - 1) :
                  switch(MgrState', m, "calendar", t) =
                      [MgrState' EXCEPT !.result = "override_active"]]_vars

\* An override to the mode already current has been made after an earlier
\* switch: the snapshot carries the flag and the deadline, the history has
\* only the earlier switch.
C39_Witness ==
    /\ last_result = "same_mode"
    /\ override_active /\ override_until = deadline /\ deadline # None
    /\ state_file = Snapshot(current_mode, TRUE, override_until)
    /\ Len(mode_history) = 1
    /\ now < override_until

----------------------------------------------------------------------------
(* Claims about a reply to an unknown confirmation *)

\* C40: an approve/deny reply whose id is not a pending confirmation writes
\* no resolution file and resolves no confirmation.
C40_UnknownReplyWritesNothing ==
    [][\A id \in ConfirmationIds, response \in Responses :
         (HandleReply(id, response) /\ id \notin pending_confirmations)
         => UNCHANGED <<conf_files, reply_pc, reply_id, reply_response,
                        pending_confirmations, results>>]_vars

\* A reply to a confirmation the webhook server holds no pending entry for
\* has been handled, while another id is pending there: the file of the
\* confirmation still holds the request, not an answer.
C40_Witness ==
    \E id \in ConfirmationIds :
        /\ replied[id] \in Responses
        /\ id \notin pending_confirmations
        /\ pending_confirmations # {}
        /\ conf_files[id] = "pending"
        /\ reply_pc = "idle"

----------------------------------------------------------------------------
(* Claims about the end of a conversation *)

\* C36: after a talk_release accepted in the listening state that started
\* _process_talk, whatever the outcome of speech-to-text, the reply and the
\* speech synthesis, the state eventually is idle again.
C36_TalkEndsIdle == (talk_pc = "start") ~> (audio_state = "idle")

----------------------------------------------------------------------------
(* Claims about the memory index *)

\* C31: on a tick of the watchdog, an index that is missing or unparseable is
\* rebuilt from the topic directory: after the tick a parseable index exists
\* and names the topics that have a file.
C31_IndexRebuilt ==
    [][(sweeps' = sweeps + 1 /\ index_file.json \in {"missing", "corrupt"})
        => index_file' = IndexOf({t \in Topics : topic_files[t] # "absent"})]_vars

----------------------------------------------------------------------------
(* Claims about the execution logs *)

\* C32: an iteration that reports (every tenth) sends its execution log on
\* LINE exactly when the commands received say so: within 30 minutes of
\* "log on", and no longer once the window has elapsed or "log off" was
\* received (the LINEBot that receives the commands is the reference).
C32_LogOnSendsLogs ==
    [][(log_iteration' = log_iteration + 1 /\ log_iteration' % LogEvery = 0)
       => ((line_exec_logs' = line_exec_logs + 1)
             <=> is_exec_log_enabled(web_exec_log_timeout, web_exec_log_enabled,
                                     log_clock).answer)]_vars

----------------------------------------------------------------------------
(* Claims about the notifier's filter *)

\* C33: in a mode whose notify level is critical, only cost alerts of level
\* stop or alert and errors are pushed (and critical health messages, which
\* this model does not produce); status, startup, shutdown and execution-log
\* pushes are suppressed.
C33_CriticalLevelFilters ==
    (last_push # NoPush /\ line_notify(last_push.mode) = "critical") =>
        \/ last_push.level = "error"
        \/ (last_push.level = "cost_alert" /\ last_push.detail \in {"stop", "alert"})

\* C34: once a termination signal has arrived, shutdown() has run within a
\* window of seconds (here a generous sixty seconds, six ticks), whatever the
\* iteration interval of the current mode.
C34_ShutdownWithinWindow ==
    (signal_at # None /\ stopped_at = None) => run_clock - signal_at <= 6

\* C35: while the loop iterates, in any mode, the heartbeat probe run by the
\* scheduler never reports WARN or CRITICAL.
C35_HeartbeatProbeOk ==
    (run_running /\ signal_at = None) => probe \notin {"WARN", "CRITICAL"}

\* C37: with or without a calendar source, once the scheduler step of an
\* iteration is over every default periodic task is registered and has run.
C37_DefaultTasksRun ==
    run_pc = "heartbeat" =>
        \A i \in DOMAIN DefaultTasks :
            \E j \in DOMAIN run_tasks :
                /\ run_tasks[j].name = DefaultTasks[i].name
                /\ (should_run_any_time(DefaultTasks[i], run_clock, run_mode, TRUE)
                        => run_tasks[j].run_count > 0)

====
